---- MODULE Spec2Model ----
(***************************************************************************)
(* False-positive classification pipeline of ai_false_positive_filter.py:  *)
(* AIFalsePositiveFilter (verified-fingerprint set, pattern check, context *)
(* heuristics, AI fallback chain), filter_findings_batch and the report of *)
(* main; load_email_config of send_email.py; _calculate_cvss_score of      *)
(* enhanced_report_generator.py.                                           *)
(*                                                                         *)
(* Conventions.  Python str values are TLA+ strings (TLC evaluates Len,    *)
(* SubSeq and \o on them).  A value that may be of any JSON type is a      *)
(* tagged record: JNone, JStr, JNum, JBool, JDict.  Floats are kept in     *)
(* hundredths (0.9 is 90).  An operator that models code which can raise   *)
(* returns a record with the field exc.                                    *)
(***************************************************************************)
EXTENDS Integers, Sequences, FiniteSets, TLC

(***************************************************************************)
(* Values                                                                  *)
(***************************************************************************)
JNone == [t |-> "none"]
JStr(s) == [t |-> "str", v |-> s]
JNum(n) == [t |-> "num", v |-> n]
JBool(b) == [t |-> "bool", v |-> b]
JDict(d) == [t |-> "dict", v |-> d]
JEmptyList == [t |-> "list"]

IsStr(x) == x.t = "str"

\* dict.get(key, default)
DictGet(d, key, default) == IF key \in DOMAIN d THEN d[key] ELSE default

\* f"{x}" for a str or None
Format(x) == IF x.t = "str" THEN x.v ELSE "None"

\* bool(x)
Truthy(x) ==
    CASE x.t = "bool" -> x.v
      [] x.t = "none" -> FALSE
      [] x.t = "str" -> x.v # ""
      [] x.t = "num" -> x.v # 0
      [] x.t = "dict" -> DOMAIN x.v # {}
      [] x.t = "list" -> FALSE

\* f"{x:.2f}" raises for anything but a number (bool is an int subclass)
FormatFloatRaises(x) == x.t \notin {"num", "bool"}

(***************************************************************************)
(* Strings                                                                 *)
(***************************************************************************)
UpperAlpha == "ABCDEFGHIJKLMNOPQRSTUVWXYZ"
LowerAlpha == "abcdefghijklmnopqrstuvwxyz"
DigitChars == {"0", "1", "2", "3", "4", "5", "6", "7", "8", "9"}

CharAt(s, i) == SubSeq(s, i, i)

LowerChar(c) ==
    IF \E j \in 1..26 : CharAt(UpperAlpha, j) = c
    THEN CharAt(LowerAlpha, CHOOSE j \in 1..26 : CharAt(UpperAlpha, j) = c)
    ELSE c

RECURSIVE LowerFrom(_, _)
LowerFrom(s, i) ==
    IF i > Len(s) THEN "" ELSE LowerChar(CharAt(s, i)) \o LowerFrom(s, i + 1)

\* str.lower()
Lower(s) == LowerFrom(s, 1)

\* sub in s
Contains(s, sub) ==
    \E i \in 1..(Len(s) - Len(sub) + 1) : SubSeq(s, i, i + Len(sub) - 1) = sub

(***************************************************************************)
(* Regular expressions (the subset of re used by the patterns)             *)
(***************************************************************************)
Lit(s) == [k |-> "lit", s |-> s]
Digit == [k |-> "digit"]
AnyChar == [k |-> "any"]
Class(cs) == [k |-> "class", cs |-> cs]
Cat(rs) == [k |-> "cat", rs |-> rs]
Alt(rs) == [k |-> "alt", rs |-> rs]
Star(r) == [k |-> "star", r |-> r]
Plus(r) == Cat(<<r, Star(r)>>)
EndAnchor == [k |-> "end"]

RECURSIVE Ends(_, _, _)
RECURSIVE CatEnds(_, _, _, _)
RECURSIVE StarEnds(_, _, _)

\* the positions after a match of r that starts at position i of s
Ends(r, s, i) ==
    CASE r.k = "lit" ->
           IF i + Len(r.s) - 1 <= Len(s) /\ SubSeq(s, i, i + Len(r.s) - 1) = r.s
           THEN {i + Len(r.s)} ELSE {}
      [] r.k = "digit" ->
           IF i <= Len(s) /\ CharAt(s, i) \in DigitChars THEN {i + 1} ELSE {}
      [] r.k = "any" ->
           IF i <= Len(s) /\ CharAt(s, i) # "\n" THEN {i + 1} ELSE {}
      [] r.k = "class" ->
           IF i <= Len(s) /\ CharAt(s, i) \in r.cs THEN {i + 1} ELSE {}
      [] r.k = "cat" -> CatEnds(r.rs, 1, s, {i})
      [] r.k = "alt" -> UNION {Ends(r.rs[j], s, i) : j \in DOMAIN r.rs}
      [] r.k = "star" -> StarEnds(r.r, s, {i})
      [] r.k = "end" ->
           IF i = Len(s) + 1 \/ (i = Len(s) /\ CharAt(s, i) = "\n") THEN {i} ELSE {}

CatEnds(rs, n, s, from) ==
    IF n > Len(rs) \/ from = {} THEN from
    ELSE CatEnds(rs, n + 1, s, UNION {Ends(rs[n], s, i) : i \in from})

StarEnds(r, s, from) ==
    LET more == from \cup UNION {Ends(r, s, i) : i \in from}
    IN IF more = from THEN from ELSE StarEnds(r, s, more)

\* lower-cases the literals of a pattern
RECURSIVE FoldCase(_)
FoldCase(r) ==
    CASE r.k = "lit" -> Lit(Lower(r.s))
      [] r.k = "class" -> Class({LowerChar(c) : c \in r.cs})
      [] r.k = "cat" -> Cat([j \in DOMAIN r.rs |-> FoldCase(r.rs[j])])
      [] r.k = "alt" -> Alt([j \in DOMAIN r.rs |-> FoldCase(r.rs[j])])
      [] r.k = "star" -> Star(FoldCase(r.r))
      [] OTHER -> r

\* re.search(pattern, s) is not None
Search(r, s) == \E i \in 1..(Len(s) + 1) : Ends(r, s, i) # {}

\* re.search(pattern, s, re.IGNORECASE) is not None
SearchIgnoreCase(r, s) == Search(FoldCase(r), Lower(s))

(***************************************************************************)
(* Pattern tables.  src is the pattern's text, re its syntax tree.         *)
(***************************************************************************)
Quote == Class({"'", "\""})

Pattern(src, re) == [src |-> src, re |-> re]

\* __init__: self.fp_indicators
fp_indicators ==
    [nuclei |-> <<
        Pattern("test\\.php\\?id=\\d+", Cat(<<Lit("test.php?id="), Plus(Digit)>>)),
        Pattern("example\\.com", Lit("example.com")),
        Pattern("localhost:\\d+", Cat(<<Lit("localhost:"), Plus(Digit)>>)),
        Pattern("127\\.0\\.0\\.1", Lit("127.0.0.1")),
        Pattern("staging\\.", Lit("staging.")),
        Pattern("dev\\.", Lit("dev.")) >>,
     xss |-> <<
        Pattern("alert\\(['\"]test['\"]\\)",
                Cat(<<Lit("alert("), Quote, Lit("test"), Quote, Lit(")")>>)),
        Pattern("console\\.log", Lit("console.log")),
        Pattern("<script>.*</script>",
                Cat(<<Lit("<script>"), Star(AnyChar), Lit("</script>")>>)),
        Pattern("javascript:void\\(0\\)", Lit("javascript:void(0)")),
        Pattern("onclick=['\"].*['\"]",
                Cat(<<Lit("onclick="), Quote, Star(AnyChar), Quote>>)) >>,
     sqli |-> <<
        Pattern("mysql_error", Lit("mysql_error")),
        Pattern("Database connection failed", Lit("Database connection failed")),
        Pattern("syntax error.*mysql",
                Cat(<<Lit("syntax error"), Star(AnyChar), Lit("mysql")>>)),
        Pattern("You have an error in your SQL", Lit("You have an error in your SQL")) >>]

\* check_pattern_based_fp: generic_fp_patterns
generic_fp_patterns == <<
    Pattern("test\\d*\\.(php|jsp|asp|html)",
            Cat(<<Lit("test"), Star(Digit), Lit("."),
                  Alt(<<Lit("php"), Lit("jsp"), Lit("asp"), Lit("html")>>)>>)),
    Pattern("example\\.(com|org|net)",
            Cat(<<Lit("example."), Alt(<<Lit("com"), Lit("org"), Lit("net")>>)>>)),
    Pattern("dummy|sample|fake|mock",
            Alt(<<Lit("dummy"), Lit("sample"), Lit("fake"), Lit("mock")>>)),
    Pattern("staging|dev|test|demo",
            Alt(<<Lit("staging"), Lit("dev"), Lit("test"), Lit("demo")>>)) >>

\* _analyze_context: dev_indicators, test_indicators
dev_indicators == <<"localhost", "127.0.0.1", "dev.", "staging.", "test.", "demo.">>
test_indicators == <<"test", "sample", "demo", "example", "dummy">>

TestDirPattern == Lit("/test/")
FileExtPattern ==
    Cat(<<Lit("."), Alt(<<Lit("txt"), Lit("log"), Lit("bak"), Lit("old")>>), EndAnchor>>)

\* index of the first TRUE of a sequence of booleans, 0 if none: the
\* iteration at which a "for ...: if ...: return" loop returns
FirstIndex(hits) ==
    IF \E j \in DOMAIN hits : hits[j]
    THEN CHOOSE j \in DOMAIN hits : hits[j] /\ \A m \in 1..(j - 1) : ~hits[m]
    ELSE 0

(***************************************************************************)
(* Fingerprint                                                             *)
(***************************************************************************)
\* hashlib.md5(content.encode()).hexdigest(), taken as collision-free: the
\* digest is a string that determines and is determined by the content
md5_hexdigest(content) == "md5(" \o content \o ")"

\* the string that is hashed
HashContent(finding) ==
    Format(finding.type) \o ":" \o Format(finding.url) \o ":"
        \o Format(finding.title) \o ":" \o Format(finding.evidence)

_generate_finding_hash(finding) == md5_hexdigest(HashContent(finding))

(***************************************************************************)
(* check_pattern_based_fp                                                  *)
(***************************************************************************)
Result(is_fp, reason) == [exc |-> FALSE, is_fp |-> is_fp, reason |-> reason]
Raised == [exc |-> TRUE, is_fp |-> FALSE, reason |-> ""]

\* variant: a tool without patterns of its own gets those of nuclei
SourcePatterns_DefaultsToNuclei(finding) ==
    IF IsStr(finding.source_tool) /\ finding.source_tool.v \in DOMAIN fp_indicators
    THEN fp_indicators[finding.source_tool.v]
    ELSE fp_indicators.nuclei

\* self.fp_indicators.get(finding.source_tool, [])
SourcePatterns(finding) ==
    IF IsStr(finding.source_tool) /\ finding.source_tool.v \in DOMAIN fp_indicators
    THEN fp_indicators[finding.source_tool.v]
    ELSE <<>>

\* variant: the generic patterns see title and evidence but not the url
GenericCheck_NoUrl(finding) ==
    LET combined_text == Lower(Format(finding.title) \o " " \o Format(finding.evidence))
        g == FirstIndex([j \in DOMAIN generic_fp_patterns |->
                            Search(generic_fp_patterns[j].re, combined_text)])
    IN IF g # 0
       THEN Result(TRUE, "Generic FP pattern matched: " \o generic_fp_patterns[g].src)
       ELSE Result(FALSE, "")

\* the generic step: lines 129-143
GenericCheck(finding) ==
    LET combined_text == Lower(Format(finding.url) \o " " \o Format(finding.title)
                                 \o " " \o Format(finding.evidence))
        g == FirstIndex([j \in DOMAIN generic_fp_patterns |->
                            Search(generic_fp_patterns[j].re, combined_text)])
    IN IF g # 0
       THEN Result(TRUE, "Generic FP pattern matched: " \o generic_fp_patterns[g].src)
       ELSE Result(FALSE, "")

\* one "for pattern in source_patterns" loop over a field; re.search raises
\* TypeError on a field that is not a str
FieldLoop(patterns, field, label, Rest) ==
    IF patterns = <<>> THEN Rest
    ELSE IF ~IsStr(field) THEN Raised
    ELSE LET j == FirstIndex([n \in DOMAIN patterns |->
                                 SearchIgnoreCase(patterns[n].re, field.v)])
         IN IF j # 0
            THEN Result(TRUE, label \o " matches FP pattern: " \o patterns[j].src)
            ELSE Rest

\* variant: the generic patterns are tried before the tool-specific ones
PatternRules_GenericFirst(finding) ==
    LET source_patterns == SourcePatterns(finding)
    IN IF GenericCheck(finding).is_fp THEN GenericCheck(finding)
       ELSE FieldLoop(source_patterns, finding.url, "URL",
              FieldLoop(source_patterns, finding.evidence, "Evidence",
                FieldLoop(source_patterns, finding.title, "Title",
                  Result(FALSE, ""))))

\* variant: the evidence is tried before the url
PatternRules_EvidenceFirst(finding) ==
    LET source_patterns == SourcePatterns(finding)
    IN FieldLoop(source_patterns, finding.evidence, "Evidence",
         FieldLoop(source_patterns, finding.url, "URL",
           FieldLoop(source_patterns, finding.title, "Title",
             GenericCheck(finding))))

\* the tool-specific and generic steps: lines 111-143
PatternRules(finding) ==
    LET source_patterns == SourcePatterns(finding)
    IN FieldLoop(source_patterns, finding.url, "URL",
         FieldLoop(source_patterns, finding.evidence, "Evidence",
           FieldLoop(source_patterns, finding.title, "Title",
             GenericCheck(finding))))

\* variant: the verified set is not consulted
check_pattern_based_fp_NoVerified(finding, verified) == PatternRules(finding)

check_pattern_based_fp(finding, verified) ==
    IF _generate_finding_hash(finding) \in verified
    THEN Result(TRUE, "Previously verified false positive")
    ELSE PatternRules(finding)

\* the fields the checks read
ContentKey(finding) ==
    <<finding.type, finding.url, finding.title, finding.description, finding.evidence,
      finding.source_tool>>

(***************************************************************************)
(* _analyze_context                                                        *)
(***************************************************************************)
_analyze_context(finding) ==
    IF ~IsStr(finding.url) THEN Raised  \* finding.url.lower(): AttributeError
    ELSE
    LET url_lower == Lower(finding.url.v)
        d == FirstIndex([j \in DOMAIN dev_indicators |->
                            Contains(url_lower, dev_indicators[j])])
        combined_content == Lower(Format(finding.title) \o " "
                                    \o Format(finding.description) \o " "
                                    \o Format(finding.evidence))
        c == FirstIndex([j \in DOMAIN test_indicators |->
                            Contains(combined_content, test_indicators[j])])
    IN IF d # 0
       THEN Result(TRUE, "Development environment detected: " \o dev_indicators[d])
       ELSE IF c # 0
       THEN Result(TRUE, "Test content detected: " \o test_indicators[c])
       ELSE IF Search(TestDirPattern, finding.url.v)
       THEN Result(TRUE, "Test directory in URL path")
       ELSE IF Search(FileExtPattern, finding.url.v)
       THEN Result(TRUE, "Non-executable file extension")
       ELSE IF ~IsStr(finding.evidence)
       THEN Raised  \* '404' in None: TypeError
       ELSE IF Contains(finding.evidence.v, "404") \/ Contains(finding.evidence.v, "403")
       THEN Result(TRUE, "HTTP error status in evidence")
       ELSE Result(FALSE, "")

(***************************************************************************)
(* _parse_ai_response_text                                                 *)
(***************************************************************************)
fp_phrases == <<"false positive", "not exploitable", "benign", "safe", "test content">>
real_phrases == <<"exploitable", "vulnerability", "security risk", "malicious">>

RECURSIVE Occurrences(_, _, _)
\* the occurrences of sub in s from position i on, overlapping ones included
Occurrences(s, sub, i) ==
    IF i + Len(sub) - 1 > Len(s) THEN 0
    ELSE (IF SubSeq(s, i, i + Len(sub) - 1) = sub THEN 1 ELSE 0)
             + Occurrences(s, sub, i + 1)

RECURSIVE SumOccurrences(_, _, _)
SumOccurrences(phrases, text, j) ==
    IF j > Len(phrases) THEN 0
    ELSE Occurrences(text, phrases[j], 1) + SumOccurrences(phrases, text, j + 1)

\* variant: every occurrence of a phrase scores
Score_Occurrences(phrases, text) == SumOccurrences(phrases, text, 1)

\* lines 247-248: sum(1 for indicator in indicators if indicator in response_lower)
Score(phrases, text) == Cardinality({j \in DOMAIN phrases : Contains(text, phrases[j])})

Abs(n) == IF n < 0 THEN -n ELSE n
Min(a, b) == IF a < b THEN a ELSE b
Max(a, b) == IF a > b THEN a ELSE b

\* variant: a tie is a false positive
_parse_ai_response_text_TieIsFP(text) ==
    LET response_lower == Lower(text)
        fp_score == Score(fp_phrases, response_lower)
        real_score == Score(real_phrases, response_lower)
    IN [is_false_positive |-> JBool(fp_score >= real_score),
        confidence |-> JNum(Min(80, Max(30, Abs(fp_score - real_score) * 10))),
        reasoning |-> JStr("Text analysis based on response: "
                            \o SubSeq(text, 1, Min(200, Len(text)))
                            \o "..."),
        risk_factors |-> JEmptyList,
        recommended_action |-> JStr("verify_manually")]

\* lines 237-259, confidence in hundredths
_parse_ai_response_text(text) ==
    LET response_lower == Lower(text)
        fp_score == Score(fp_phrases, response_lower)
        real_score == Score(real_phrases, response_lower)
    IN [is_false_positive |-> JBool(fp_score > real_score),
        confidence |-> JNum(Min(80, Max(30, Abs(fp_score - real_score) * 10))),
        reasoning |-> JStr("Text analysis based on response: "
                            \o SubSeq(text, 1, Min(200, Len(text)))
                            \o "..."),
        risk_factors |-> JEmptyList,
        recommended_action |-> JStr("verify_manually")]

\* the "ultimate fallback" of ai_analyze_finding
AIUnavailable ==
    [is_false_positive |-> JBool(FALSE),
     confidence |-> JNum(0),
     reasoning |-> JStr("AI analysis unavailable"),
     risk_factors |-> JEmptyList,
     recommended_action |-> JStr("verify_manually")]

(***************************************************************************)
(* Inputs: finding records as the scanner layer hands them over (JSON      *)
(* objects; a key may be absent and a value may be null)                   *)
(***************************************************************************)
UrlA == "http://test.example.com/test.php?id=1"
UrlB == "https://prod.target.com/api/users/42"
UrlC == "https://staging.target.com/login"
UrlL == "http://localhost/admin"
EvidenceB == "200 OK, {\"id\":42}"

FindingA == [url |-> JStr(UrlA), source_tool |-> JStr("nuclei"), type |-> JStr("nuclei")]
FindingB == [url |-> JStr(UrlB), evidence |-> JStr(EvidenceB)]
\* the content of FindingB under another id, severity, description and tool
FindingB2 == [id |-> JStr("B2"), url |-> JStr(UrlB), evidence |-> JStr(EvidenceB),
              severity |-> JStr("high"), description |-> JStr("user record exposed"),
              source_tool |-> JStr("sqli")]
FindingC == [url |-> JStr(UrlC)]
FindingL == [url |-> JStr(UrlL)]
Finding404 == [id |-> JStr("e404"), url |-> JStr(UrlB), evidence |-> JStr("HTTP 404 Not Found")]
\* the finding of test_enhancements.py
FindingT == [id |-> JStr("test_1"), type |-> JStr("xss"), severity |-> JStr("medium"),
             url |-> JStr("https://test.example.com/page.php"), title |-> JStr("Test XSS"),
             description |-> JStr("Test XSS vulnerability"),
             evidence |-> JStr("<script>alert('test')</script>"),
             source_tool |-> JStr("nuclei")]
FindingNullUrlTool == [url |-> JNone, source_tool |-> JStr("nuclei")]
FindingNullEvidence == [url |-> JStr(UrlB), evidence |-> JNone]

FindingInputs ==
    {FindingA, FindingB, FindingB2, FindingC, FindingL, Finding404, FindingT,
     FindingNullUrlTool, FindingNullEvidence}

\* Findings that exercise the order of the pattern rules and of the
\* context rules
UrlApp == "https://app.target.com/api/users/42"

FindingEvidenceHit ==
    [type |-> JStr("sqli"), url |-> JStr("https://app.target.com/item?id=7"),
     title |-> JStr("SQL injection"), evidence |-> JStr("Warning: MYSQL_ERROR 1064"),
     source_tool |-> JStr("sqli")]
FindingTitleHit ==
    [url |-> JStr("https://app.target.com/search"),
     title |-> JStr("console.log call reflected"), evidence |-> JStr("q=1"),
     source_tool |-> JStr("xss")]
FindingUrlAndEvidenceHit ==
    [url |-> JStr("https://dev.target.com/a"), evidence |-> JStr("see example.com"),
     source_tool |-> JStr("nuclei")]
FindingTwoUrlPatterns ==
    [url |-> JStr("http://127.0.0.1/staging./"), source_tool |-> JStr("nuclei")]
FindingTwoGenerics == [url |-> JStr("https://app.target.com/sample/test1.html")]
FindingGenericUpper ==
    [url |-> JStr("https://app.target.com/a"), title |-> JStr("DEMO Page"),
     source_tool |-> JStr("zap")]
FindingLoopbackOtherTool == [url |-> JStr("http://127.0.0.1/x"), source_tool |-> JStr("zap")]
FindingLocalhostCapitalTool ==
    [url |-> JStr("http://localhost:8080/x"), source_tool |-> JStr("Nuclei")]
FindingEmptyToolNulls == [url |-> JNone, evidence |-> JNone, source_tool |-> JStr("")]
FindingNullToolBackup ==
    [url |-> JStr("https://app.target.com/a.bak"), source_tool |-> JNone]
\* a request forgery finding: the loopback address is in the query
FindingLoopbackInQuery ==
    [type |-> JStr("ssrf"), url |-> JStr("https://prod.target.com/proxy?target=http://127.0.0.1/"),
     evidence |-> JStr("200 OK, internal page"), source_tool |-> JStr("zap")]
FindingDescriptionTxt404 ==
    [url |-> JStr("https://app.target.com/readme.txt"),
     description |-> JStr("Example payload"), evidence |-> JStr("HTTP 404")]
FindingOld403 ==
    [url |-> JStr("https://app.target.com/backup.old"),
     evidence |-> JStr("HTTP 403 Forbidden")]
Finding403 == [url |-> JStr("https://app.target.com/admin"), evidence |-> JStr("HTTP 403 Forbidden")]
FindingTestDir404 ==
    [url |-> JStr("https://app.target.com/test/readme.txt"), evidence |-> JStr("HTTP 404")]
FindingNoMatch == [url |-> JStr(UrlApp), evidence |-> JStr("200 OK")]

CheckInputs ==
    {FindingEvidenceHit, FindingTitleHit, FindingUrlAndEvidenceHit, FindingTwoUrlPatterns,
     FindingTwoGenerics, FindingGenericUpper, FindingLoopbackOtherTool,
     FindingLocalhostCapitalTool, FindingEmptyToolNulls, FindingNullToolBackup,
     FindingLoopbackInQuery, FindingDescriptionTxt404, FindingOld403, Finding403,
     FindingTestDir404, FindingNoMatch}

\* findings that match no built-in pattern and no context check
FindingPortalZap ==
    [type |-> JStr("info"), url |-> JStr("https://app.target.com/internal-portal/login"),
     title |-> JStr("Login page"), evidence |-> JStr("200 OK"), source_tool |-> JStr("zap")]
FindingHealthNuclei ==
    [type |-> JStr("info"), url |-> JStr("https://app.target.com/healthcheck"),
     title |-> JStr("Status page"), evidence |-> JStr("200 OK"),
     source_tool |-> JStr("nuclei")]

OverrideInputs == {FindingPortalZap, FindingHealthNuclei, FindingNoMatch, FindingEvidenceHit}

\* two findings that differ in title and evidence
FindingColonInTitle ==
    [type |-> JStr("sqli"), url |-> JStr(UrlApp), title |-> JStr("SQL error: login"),
     evidence |-> JStr("500")]
FindingColonInEvidence ==
    [type |-> JStr("sqli"), url |-> JStr(UrlApp), title |-> JStr("SQL error"),
     evidence |-> JStr(" login:500")]

CollidingInputs == {FindingColonInTitle, FindingColonInEvidence, FindingNoMatch, Finding403}

\* longest batch drawn from FindingInputs
MaxBatch == 2

RECURSIVE SeqsUpTo(_, _)
SeqsUpTo(S, n) ==
    IF n = 0 THEN {<<>>}
    ELSE LET shorter == SeqsUpTo(S, n - 1)
         IN shorter \cup {Append(q, x) : q \in {r \in shorter : Len(r) = n - 1}, x \in S}

WithId(f, id) == [k \in DOMAIN f \cup {"id"} |-> IF k = "id" THEN JStr(id) ELSE f[k]]

\* 3 pattern-matched, 2 context-matched, 5 needing the AI step
ScenarioE ==
    <<FindingA, FindingB, FindingL, WithId(FindingB, "b2"), FindingC,
      WithId(FindingB, "b3"), Finding404, WithId(FindingB, "b4"), FindingT,
      WithId(FindingB, "b5")>>

BatchInputs == SeqsUpTo(FindingInputs, MaxBatch)

\* what a provider can answer: parseable JSON objects and plain texts
AIJsonAnswers ==
    {[is_false_positive |-> JBool(TRUE), confidence |-> JNum(90),
      reasoning |-> JStr("demo endpoint")],
     [is_false_positive |-> JBool(FALSE), confidence |-> JNum(70),
      reasoning |-> JStr("real issue")],
     [is_false_positive |-> JBool(TRUE), confidence |-> JNum(9500),
      reasoning |-> JStr("95 percent sure")],
     [is_false_positive |-> JBool(TRUE), confidence |-> JNum(80)],
     [is_false_positive |-> JBool(FALSE), confidence |-> JStr("high"),
      reasoning |-> JStr("real issue")],
     [reasoning |-> JStr("unsure")]}

AITextAnswers ==
    {"", "This is a false positive, the page is benign.", "Not exploitable"}

\* _parse_ai_response_text applied to every text, evaluated once
ParsedTexts == {[text |-> s, parsed |-> _parse_ai_response_text(s)] : s \in AITextAnswers}

ParsedText(s) == (CHOOSE m \in ParsedTexts : m.text = s).parsed

(***************************************************************************)
(* VulnerabilityFindings and the conversion of filter_findings_batch       *)
(***************************************************************************)
RECURSIVE IntToStr(_)
\* str(i) for i >= 0
IntToStr(i) ==
    IF i < 10 THEN CharAt("0123456789", i + 1)
    ELSE IntToStr(i \div 10) \o CharAt("0123456789", (i % 10) + 1)

\* variant: a missing evidence becomes None
VulnerabilityFindings_EvidenceNone(i, finding) ==
    [id |-> DictGet(finding, "id", JStr(IntToStr(i))),
     type |-> DictGet(finding, "type", JStr("unknown")),
     severity |-> DictGet(finding, "severity", JStr("medium")),
     url |-> DictGet(finding, "url", JStr("")),
     title |-> DictGet(finding, "title", JStr("")),
     description |-> DictGet(finding, "description", JStr("")),
     evidence |-> DictGet(finding, "evidence", JNone),
     source_tool |-> DictGet(finding, "source_tool", JStr("unknown")),
     confidence |-> JNum(0),
     is_false_positive |-> JBool(FALSE),
     ai_analysis |-> JNone]

\* lines 339-348; i is the 0-based list index
VulnerabilityFindings(i, finding) ==
    [id |-> DictGet(finding, "id", JStr(IntToStr(i))),
     type |-> DictGet(finding, "type", JStr("unknown")),
     severity |-> DictGet(finding, "severity", JStr("medium")),
     url |-> DictGet(finding, "url", JStr("")),
     title |-> DictGet(finding, "title", JStr("")),
     description |-> DictGet(finding, "description", JStr("")),
     evidence |-> DictGet(finding, "evidence", JStr("")),
     source_tool |-> DictGet(finding, "source_tool", JStr("unknown")),
     confidence |-> JNum(0),
     is_false_positive |-> JBool(FALSE),
     ai_analysis |-> JNone]

\* variant: the returned dictionary carries the severity in upper case
\* letters and no evidence
FindingDict_Summary(analyzed) ==
    [id |-> analyzed.id, type |-> analyzed.type,
     severity |-> IF IsStr(analyzed.severity) THEN JStr("HIGH") ELSE analyzed.severity,
     url |-> analyzed.url, title |-> analyzed.title,
     description |-> analyzed.description,
     source_tool |-> analyzed.source_tool, confidence |-> analyzed.confidence,
     ai_analysis |-> analyzed.ai_analysis]

\* lines 370-386: one dictionary of the returned list
FindingDict(analyzed) ==
    [id |-> analyzed.id, type |-> analyzed.type, severity |-> analyzed.severity,
     url |-> analyzed.url, title |-> analyzed.title,
     description |-> analyzed.description, evidence |-> analyzed.evidence,
     source_tool |-> analyzed.source_tool, confidence |-> analyzed.confidence,
     ai_analysis |-> analyzed.ai_analysis]

\* variant: nothing is filtered out
FilteredFindings_KeepsAll(analyzed_list) ==
    [i \in 1..Len(analyzed_list) |-> FindingDict(analyzed_list[i])]

RECURSIVE FilteredFindings(_)
\* lines 370-388: the dictionaries of the findings that are not false positives
FilteredFindings(analyzed_list) ==
    IF analyzed_list = <<>> THEN <<>>
    ELSE LET rest == FilteredFindings(Tail(analyzed_list))
         IN IF ~Truthy(Head(analyzed_list).is_false_positive)
            THEN <<FindingDict(Head(analyzed_list))>> \o rest
            ELSE rest

(***************************************************************************)
(* comprehensive_fp_analysis                                               *)
(***************************************************************************)
\* variant: the decision is recorded without its analysis
Decided_NoAnalysis(finding, method, reason, conf) ==
    [finding EXCEPT !.is_false_positive = JBool(TRUE),
                    !.confidence = JNum(conf)]

\* lines 268-275 and 280-287
Decided(finding, method, reason, conf) ==
    [finding EXCEPT !.is_false_positive = JBool(TRUE),
                    !.confidence = JNum(conf),
                    !.ai_analysis = JDict([method |-> JStr(method),
                                           reasoning |-> JStr(reason),
                                           confidence |-> JNum(conf)])]

\* The two checks applied to every input, evaluated once: a check depends
\* on the fields of ContentKey and on the verified set only, and the outcome
\* for the empty verified set is the outcome of the rules after a miss.
ChecksOfInputs ==
    {[key |-> ContentKey(o),
      pattern |-> check_pattern_based_fp(o, {}),
      context |-> _analyze_context(o)] :
        o \in {VulnerabilityFindings(0, f) :
                   f \in FindingInputs \cup CheckInputs \cup OverrideInputs
                           \cup CollidingInputs}}

ChecksOf(finding) == CHOOSE m \in ChecksOfInputs : m.key = ContentKey(finding)

\* variant: the context analysis runs before the pattern check
DeterministicSteps_ContextFirst(finding, verified) ==
    LET p == IF _generate_finding_hash(finding) \in verified
             THEN check_pattern_based_fp(finding, verified)
             ELSE ChecksOf(finding).pattern
        c == ChecksOf(finding).context
    IN IF c.exc
       THEN [exc |-> TRUE, site |-> "_analyze_context", done |-> FALSE,
             finding |-> finding]
       ELSE IF c.is_fp
       THEN [exc |-> FALSE, site |-> "", done |-> TRUE,
             finding |-> Decided(finding, "context_analysis", c.reason, 80)]
       ELSE IF p.exc
       THEN [exc |-> TRUE, site |-> "check_pattern_based_fp", done |-> FALSE,
             finding |-> finding]
       ELSE IF p.is_fp
       THEN [exc |-> FALSE, site |-> "", done |-> TRUE,
             finding |-> Decided(finding, "pattern_matching", p.reason, 90)]
       ELSE [exc |-> FALSE, site |-> "", done |-> FALSE, finding |-> finding]

\* variant: the context analysis is left out
DeterministicSteps_NoContext(finding, verified) ==
    LET p == IF _generate_finding_hash(finding) \in verified
             THEN check_pattern_based_fp(finding, verified)
             ELSE ChecksOf(finding).pattern
    IN IF p.exc
       THEN [exc |-> TRUE, site |-> "check_pattern_based_fp", done |-> FALSE,
             finding |-> finding]
       ELSE IF p.is_fp
       THEN [exc |-> FALSE, site |-> "", done |-> TRUE,
             finding |-> Decided(finding, "pattern_matching", p.reason, 90)]
       ELSE [exc |-> FALSE, site |-> "", done |-> FALSE, finding |-> finding]

\* Steps 1 and 2 (lines 264-287), up to the await of the AI step.
\* exc: an exception left the coroutine, raised in site; done: the finding
\* was returned
DeterministicSteps(finding, verified) ==
    LET p == IF _generate_finding_hash(finding) \in verified
             THEN check_pattern_based_fp(finding, verified)
             ELSE ChecksOf(finding).pattern
        c == ChecksOf(finding).context
    IN IF p.exc
       THEN [exc |-> TRUE, site |-> "check_pattern_based_fp", done |-> FALSE,
             finding |-> finding]
       ELSE IF p.is_fp
       THEN [exc |-> FALSE, site |-> "", done |-> TRUE,
             finding |-> Decided(finding, "pattern_matching", p.reason, 90)]
       ELSE IF c.exc
       THEN [exc |-> TRUE, site |-> "_analyze_context", done |-> FALSE,
             finding |-> finding]
       ELSE IF c.is_fp
       THEN [exc |-> FALSE, site |-> "", done |-> TRUE,
             finding |-> Decided(finding, "context_analysis", c.reason, 80)]
       ELSE [exc |-> FALSE, site |-> "", done |-> FALSE, finding |-> finding]

\* Step 3 (lines 290-294) once ai_analyze_finding has returned ai_analysis
AIStep(finding, ai_analysis) ==
    [finding EXCEPT !.ai_analysis = JDict(ai_analysis),
                    !.is_false_positive =
                        DictGet(ai_analysis, "is_false_positive", JBool(FALSE)),
                    !.confidence = DictGet(ai_analysis, "confidence", JNum(50))]

(***************************************************************************)
(* State                                                                   *)
(***************************************************************************)
VARIABLES
    verified_fps,          \* self.verified_fps
    fp_file,               \* config/verified_false_positives.json
    findings,              \* the argument of filter_findings_batch
    vuln_findings,         \* the VulnerabilityFindings objects (mutated in place)
    analyzed_findings,     \* the objects analysed so far, in order
    false_positive_count,
    filtered_findings,     \* the list filter_findings_batch returned
    ai_requests,           \* per finding, the requests posted to each provider
    pc,                    \* "idle", "ollama", "huggingface", "done", "raised"
    exception,             \* where the exception that left the batch was raised
    save_raised,           \* the last save_verified_fp call raised
    report,                \* main: what create_fp_report returned for --report
    email_config_file,     \* send_email.py: config/email_config.json
    email_config,          \* send_email.py: what load_email_config returned
    severity,              \* the argument of _calculate_cvss_score
    cvss_score,            \* what _calculate_cvss_score returned
    response_text,         \* the argument of _parse_ai_response_text
    parsed_response,       \* what _parse_ai_response_text returned
    patterns_file,         \* config/false_positive_patterns.json
    false_positive_patterns,  \* self.false_positive_patterns
    other_verified_fps     \* self.verified_fps of a second AIFalsePositiveFilter

vars == <<verified_fps, fp_file, findings, vuln_findings, analyzed_findings,
          false_positive_count, filtered_findings, ai_requests, pc, exception,
          save_raised, report, email_config_file, email_config, severity, cvss_score,
          response_text, parsed_response, patterns_file, false_positive_patterns,
          other_verified_fps>>

batch_vars == <<findings, vuln_findings, analyzed_findings, false_positive_count,
                filtered_findings, ai_requests, pc, exception>>

\* nothing returned yet
NotCalled == [t |-> "not called"]

\* the text parser called on its own, the pattern file of the filter and a
\* second filter over the same storage file
further_vars == <<response_text, parsed_response, patterns_file, false_positive_patterns,
                  other_verified_fps>>

\* the state of the other programs of the repository and of main's report
other_vars == <<report, email_config_file, email_config, severity, cvss_score,
                further_vars>>

\* _load_fp_patterns (lines 71-82): the dictionary in the file, or the empty
\* dictionary when the file is missing or cannot be parsed
_load_fp_patterns(file) == IF file.k = "ok" THEN file.patterns ELSE <<>>

\* no pattern file, no second filter, the text parser not called
FurtherIdle ==
    /\ response_text = ""
    /\ parsed_response = NotCalled
    /\ patterns_file = [k |-> "missing"]
    /\ false_positive_patterns = _load_fp_patterns(patterns_file)
    /\ other_verified_fps = {}

\* no call of the other programs is under way
OthersIdle ==
    /\ FurtherIdle
    /\ report = NotCalled
    /\ email_config_file = [k |-> "missing"]
    /\ email_config = NotCalled
    /\ severity = JStr("medium")
    /\ cvss_score = NotCalled

File(k, hashes) == [k |-> k, hashes |-> hashes]

\* _load_verified_fps: the set in the file, or the empty set when the file
\* is missing or cannot be parsed
_load_verified_fps(file) == IF file.k = "ok" THEN file.hashes ELSE {}

\* the findings a triage loop confirms as false positives
ConfirmInputs == {FindingB2, FindingC}
ConfirmHashes == {_generate_finding_hash(VulnerabilityFindings(0, f)) : f \in ConfirmInputs}

InitialFiles ==
    {File("missing", {}), File("malformed", {}), File("ok", {})}
        \cup {File("ok", {h}) : h \in ConfirmHashes}

\* a fresh AIFalsePositiveFilter over the given file, no batch started
FilterIdle(file) ==
    /\ fp_file = file
    /\ verified_fps = _load_verified_fps(file)
    /\ findings = <<>>
    /\ vuln_findings = <<>>
    /\ analyzed_findings = <<>>
    /\ false_positive_count = 0
    /\ filtered_findings = <<>>
    /\ ai_requests = <<>>
    /\ pc = "idle"
    /\ exception = ""
    /\ save_raised = FALSE

Init ==
    /\ \E file \in InitialFiles : FilterIdle(file)
    /\ OthersIdle

(***************************************************************************)
(* filter_findings_batch.  The coroutine runs without suspension until a   *)
(* finding needs the AI step (a request is posted and awaited), the list   *)
(* is returned, or an exception leaves it.                                 *)
(***************************************************************************)
Frame(pcv, vf, an, cnt, out, req, exc) ==
    [pc |-> pcv, vuln_findings |-> vf, analyzed_findings |-> an,
     false_positive_count |-> cnt, filtered_findings |-> out, ai_requests |-> req,
     exception |-> exc]

NoRequests == [ollama |-> 0, huggingface |-> 0]

RECURSIVE AnalyzeLoop(_, _, _, _, _)
\* lines 355-388 from the top of the for loop, len(an) findings being analysed
AnalyzeLoop(vf, an, cnt, req, verified) ==
    LET i == Len(an) + 1
    IN IF i > Len(vf)
       THEN Frame("done", vf, an, cnt, FilteredFindings(an), req, "")
       ELSE LET r == DeterministicSteps(vf[i], verified)
            IN IF r.exc THEN Frame("raised", vf, an, cnt, <<>>, req, r.site)
               ELSE IF r.done
               THEN AnalyzeLoop([vf EXCEPT ![i] = r.finding], Append(an, r.finding),
                                cnt + 1, req, verified)
               ELSE Frame("ollama", vf, an, cnt, <<>>,
                          [req EXCEPT ![i].ollama = @ + 1], "")

\* variant: the fingerprint of a finding the AI step labelled a false
\* positive counts as verified for the rest of the batch
AfterAIStep_RemembersLabel(vf, an, cnt, req, verified, ai_analysis) ==
    LET i == Len(an) + 1
        analyzed == AIStep(vf[i], ai_analysis)
        vf2 == [vf EXCEPT ![i] = analyzed]
        an2 == Append(an, analyzed)
        cnt2 == IF Truthy(analyzed.is_false_positive) THEN cnt + 1 ELSE cnt
        seen == IF Truthy(analyzed.is_false_positive)
                THEN verified \cup {_generate_finding_hash(analyzed)}
                ELSE verified
    IN IF FormatFloatRaises(analyzed.confidence)
       THEN Frame("raised", vf2, an2, cnt2, <<>>, req, "print")
       ELSE AnalyzeLoop(vf2, an2, cnt2, req, seen)

\* lines 356-363 after comprehensive_fp_analysis returned from the AI step,
\* then on with the loop
AfterAIStep(vf, an, cnt, req, verified, ai_analysis) ==
    LET i == Len(an) + 1
        analyzed == AIStep(vf[i], ai_analysis)
        vf2 == [vf EXCEPT ![i] = analyzed]
        an2 == Append(an, analyzed)
        cnt2 == IF Truthy(analyzed.is_false_positive) THEN cnt + 1 ELSE cnt
    IN IF FormatFloatRaises(analyzed.confidence)
       THEN Frame("raised", vf2, an2, cnt2, <<>>, req, "print")
       ELSE AnalyzeLoop(vf2, an2, cnt2, req, verified)

SetFrame(fr) ==
    /\ pc' = fr.pc
    /\ vuln_findings' = fr.vuln_findings
    /\ analyzed_findings' = fr.analyzed_findings
    /\ false_positive_count' = fr.false_positive_count
    /\ filtered_findings' = fr.filtered_findings
    /\ ai_requests' = fr.ai_requests
    /\ exception' = fr.exception

\* variant: the fingerprints of the findings decided as false positives are
\* remembered
filter_findings_batch_call_RemembersHits(batch) ==
    /\ pc = "idle"
    /\ findings' = batch
    /\ LET vf == [i \in 1..Len(batch) |-> VulnerabilityFindings(i - 1, batch[i])]
       IN SetFrame(AnalyzeLoop(vf, <<>>, 0, [i \in 1..Len(batch) |-> NoRequests],
                               verified_fps))
    /\ verified_fps' =
           verified_fps \cup {_generate_finding_hash(analyzed_findings'[i]) :
                                 i \in DOMAIN analyzed_findings'}
    /\ UNCHANGED <<fp_file, save_raised>>
    /\ UNCHANGED other_vars

\* lines 331-388 up to the first suspension
filter_findings_batch_call(batch) ==
    /\ pc = "idle"
    /\ findings' = batch
    /\ LET vf == [i \in 1..Len(batch) |-> VulnerabilityFindings(i - 1, batch[i])]
       IN SetFrame(AnalyzeLoop(vf, <<>>, 0, [i \in 1..Len(batch) |-> NoRequests],
                               verified_fps))
    /\ UNCHANGED <<verified_fps, fp_file, save_raised>>
    /\ UNCHANGED other_vars

filter_findings_batch == \E batch \in BatchInputs : filter_findings_batch_call(batch)

(***************************************************************************)
(* ai_analyze_finding: the answers of the two providers                    *)
(***************************************************************************)
Answer(k, d, s) == [k |-> k, d |-> d, s |-> s]

\* Ollama: the request raises (connection, timeout, unreadable body), a
\* status other than 200, a response with a JSON object in it, or plain text
OllamaAnswers ==
    {Answer("raise", <<>>, ""), Answer("status", <<>>, "")}
        \cup {Answer("json", d, "") : d \in AIJsonAnswers}
        \cup {Answer("text", <<>>, s) : s \in AITextAnswers}

\* HuggingFace: raises, a status other than 200, a body that is no
\* non-empty list, or generated text
HuggingFaceAnswers ==
    {Answer("raise", <<>>, ""), Answer("status", <<>>, ""), Answer("empty", <<>>, "")}
        \cup {Answer("text", <<>>, s) : s \in AITextAnswers}

\* lines 188-204
OllamaResult(answer) ==
    IF answer.k = "json" THEN answer.d ELSE ParsedText(answer.s)

\* variant: a body without generated text is parsed as an empty text
HuggingFaceResult_ParsesEmpty(answer) ==
    IF answer.k \in {"text", "empty"} THEN ParsedText(answer.s) ELSE AIUnavailable

\* lines 219-235
HuggingFaceResult(answer) ==
    IF answer.k = "text" THEN ParsedText(answer.s) ELSE AIUnavailable

\* variant: a failed request to Ollama is repeated once
OllamaResponds_RetriesOnce(answer) ==
    /\ pc = "ollama"
    /\ IF answer.k \in {"raise", "status"}
       THEN /\ IF ai_requests[Len(analyzed_findings) + 1].ollama < 2
               THEN /\ pc' = "ollama"
                    /\ ai_requests' =
                           [ai_requests EXCEPT ![Len(analyzed_findings) + 1].ollama = @ + 1]
               ELSE /\ pc' = "huggingface"
                    /\ ai_requests' =
                           [ai_requests EXCEPT
                               ![Len(analyzed_findings) + 1].huggingface = @ + 1]
            /\ UNCHANGED <<vuln_findings, analyzed_findings, false_positive_count,
                           filtered_findings, exception>>
       ELSE SetFrame(AfterAIStep(vuln_findings, analyzed_findings, false_positive_count,
                                 ai_requests, verified_fps, OllamaResult(answer)))
    /\ UNCHANGED <<findings, verified_fps, fp_file, save_raised>>
    /\ UNCHANGED other_vars

\* lines 176-207: Ollama's answer arrives, or the request fails and the
\* request to HuggingFace is posted
OllamaResponds(answer) ==
    /\ pc = "ollama"
    /\ IF answer.k \in {"raise", "status"}
       THEN /\ pc' = "huggingface"
            /\ ai_requests' =
                   [ai_requests EXCEPT ![Len(analyzed_findings) + 1].huggingface = @ + 1]
            /\ UNCHANGED <<vuln_findings, analyzed_findings, false_positive_count,
                           filtered_findings, exception>>
       ELSE SetFrame(AfterAIStep(vuln_findings, analyzed_findings, false_positive_count,
                                 ai_requests, verified_fps, OllamaResult(answer)))
    /\ UNCHANGED <<findings, verified_fps, fp_file, save_raised>>
    /\ UNCHANGED other_vars

HuggingFaceResponds(answer) ==
    /\ pc = "huggingface"
    /\ SetFrame(AfterAIStep(vuln_findings, analyzed_findings, false_positive_count,
                            ai_requests, verified_fps, HuggingFaceResult(answer)))
    /\ UNCHANGED <<findings, verified_fps, fp_file, save_raised>>
    /\ UNCHANGED other_vars

ai_analyze_finding ==
    \/ \E answer \in OllamaAnswers : OllamaResponds(answer)
    \/ \E answer \in HuggingFaceAnswers : HuggingFaceResponds(answer)

(***************************************************************************)
(* save_verified_fp                                                        *)
(***************************************************************************)
\* variant: only the new hash is written to the file
save_verified_fp_call_WritesOnlyNew(finding_hash, mkdir_ok, write) ==
    /\ verified_fps' = verified_fps \cup {finding_hash}
    /\ IF ~mkdir_ok
       THEN /\ fp_file.k = "missing"
            /\ save_raised' = TRUE
            /\ UNCHANGED fp_file
       ELSE /\ save_raised' = FALSE
            /\ fp_file' = CASE write = "ok" -> File("ok", {finding_hash})
                            [] write = "open_fails" -> fp_file
                            [] write = "dump_fails" -> File("malformed", {})
    /\ UNCHANGED batch_vars
    /\ UNCHANGED other_vars

\* mkdir can fail only while the config directory does not exist; the write
\* succeeds, fails in open (file untouched) or fails in json.dump (file cut)
save_verified_fp_call(finding_hash, mkdir_ok, write) ==
    /\ verified_fps' = verified_fps \cup {finding_hash}
    /\ IF ~mkdir_ok
       THEN /\ fp_file.k = "missing"
            /\ save_raised' = TRUE
            /\ UNCHANGED fp_file
       ELSE /\ save_raised' = FALSE
            /\ fp_file' = CASE write = "ok" -> File("ok", verified_fps')
                            [] write = "open_fails" -> fp_file
                            [] write = "dump_fails" -> File("malformed", {})
    /\ UNCHANGED batch_vars
    /\ UNCHANGED other_vars

save_verified_fp ==
    \E finding_hash \in ConfirmHashes, mkdir_ok \in BOOLEAN,
       write \in {"ok", "open_fails", "dump_fails"} :
        save_verified_fp_call(finding_hash, mkdir_ok, write)

Next ==
    \/ filter_findings_batch
    \/ ai_analyze_finding
    \/ (pc \notin {"done", "raised"} /\ save_verified_fp)

Spec == Init /\ [][Next]_vars

(***************************************************************************)
(* The batch while no provider answers: Ollama and HuggingFace raise or    *)
(* answer with a status other than 200, or HuggingFace sends no text.      *)
(***************************************************************************)
OllamaDown == {a \in OllamaAnswers : a.k \in {"raise", "status"}}
HuggingFaceDown == {a \in HuggingFaceAnswers : a.k \in {"raise", "status", "empty"}}

NextAIDown ==
    \/ \E batch \in BatchInputs \cup {ScenarioE} : filter_findings_batch_call(batch)
    \/ \E answer \in OllamaDown : OllamaResponds(answer)
    \/ \E answer \in HuggingFaceDown : HuggingFaceResponds(answer)
    \/ (pc \notin {"done", "raised"} /\ save_verified_fp)

SpecAIDown == Init /\ [][NextAIDown]_vars

(***************************************************************************)
(* The filter while the storage works: the config directory can be made    *)
(* and the file can be written.  No provider answers.                      *)
(***************************************************************************)
NextStorageOk ==
    \/ filter_findings_batch
    \/ \E answer \in OllamaDown : OllamaResponds(answer)
    \/ \E answer \in HuggingFaceDown : HuggingFaceResponds(answer)
    \/ /\ pc \notin {"done", "raised"}
       /\ \E finding_hash \in ConfirmHashes : save_verified_fp_call(finding_hash, TRUE, "ok")

SpecStorageOk == Init /\ [][NextStorageOk]_vars

(***************************************************************************)
(* Batches of the findings that exercise the rules, while no provider      *)
(* answers.                                                                *)
(***************************************************************************)
NextChecks ==
    \/ \E batch \in SeqsUpTo(CheckInputs, MaxBatch) : filter_findings_batch_call(batch)
    \/ \E answer \in OllamaDown : OllamaResponds(answer)
    \/ \E answer \in HuggingFaceDown : HuggingFaceResponds(answer)

SpecChecks == Init /\ [][NextChecks]_vars

(***************************************************************************)
(* main with --report: process_findings builds the report from the list    *)
(* filter_findings_batch returned.                                         *)
(***************************************************************************)
\* f"{x:.2f}" for a number kept in hundredths (True formats as 1.00)
FormatFloat2(x) ==
    LET n == IF x.t = "bool" THEN (IF x.v THEN 100 ELSE 0) ELSE x.v
    IN IntToStr(n \div 100) \o "." \o IntToStr((n % 100) \div 10) \o IntToStr(n % 10)

\* VulnerabilityFindings(**finding) for a dictionary of the returned list:
\* the fields the dictionary lacks take the defaults of the dataclass
VulnerabilityFindingsFromDict(finding) ==
    [k \in DOMAIN finding \cup {"confidence", "is_false_positive", "ai_analysis"} |->
        IF k \in DOMAIN finding THEN finding[k]
        ELSE CASE k = "confidence" -> JNum(0)
               [] k = "is_false_positive" -> JBool(FALSE)
               [] k = "ai_analysis" -> JNone]

\* one "### title" section of the false positive details
DetailSection(fp) ==
    [title |-> fp.title, type |-> fp.type, url |-> fp.url,
     confidence |-> FormatFloat2(fp.confidence),
     reasoning |-> IF Truthy(fp.ai_analysis)
                   THEN DictGet(fp.ai_analysis.v, "reasoning", JStr("N/A"))
                   ELSE JStr("N/A"),
     source |-> fp.source_tool]

\* create_fp_report: the numbers of the summary, the detail sections and
\* the lines of the valid findings summary
create_fp_report(analyzed_list) ==
    LET fp_findings == SelectSeq(analyzed_list, LAMBDA f : Truthy(f.is_false_positive))
        valid_findings == SelectSeq(analyzed_list, LAMBDA f : ~Truthy(f.is_false_positive))
    IN IF \E i \in DOMAIN fp_findings : FormatFloatRaises(fp_findings[i].confidence)
       THEN [exc |-> TRUE]
       ELSE [exc |-> FALSE,
             total |-> Len(analyzed_list),
             false_positives |-> Len(fp_findings),
             valid |-> Len(valid_findings),
             details |-> [i \in DOMAIN fp_findings |-> DetailSection(fp_findings[i])],
             valid_summary |->
                 [i \in 1..Min(10, Len(valid_findings)) |->
                     [title |-> valid_findings[i].title,
                      severity |-> valid_findings[i].severity,
                      url |-> valid_findings[i].url]],
             more |-> Max(0, Len(valid_findings) - 10)]

\* lines 479-482: the list handed to create_fp_report
ReportInput ==
    [i \in DOMAIN filtered_findings |-> VulnerabilityFindingsFromDict(filtered_findings[i])]

\* lines 477-487, after filter_findings_batch returned
process_findings_report ==
    /\ pc = "done"
    /\ report = NotCalled
    /\ report' = create_fp_report(ReportInput)
    /\ UNCHANGED <<verified_fps, fp_file, save_raised>>
    /\ UNCHANGED batch_vars
    /\ UNCHANGED <<email_config_file, email_config, severity, cvss_score>>
    /\ UNCHANGED further_vars

NextMain ==
    \/ NextAIDown
    \/ process_findings_report

SpecMain == Init /\ [][NextMain]_vars

(***************************************************************************)
(* send_email.py: load_email_config.  The file is missing, cannot be       *)
(* opened (a directory, no permission), is not UTF-8 text, is not JSON, or *)
(* holds the JSON value v.                                                 *)
(***************************************************************************)
ConfigFile(k, v) == [k |-> k, v |-> v]

RaisedWith(exc) == [t |-> "raised", exc |-> exc]

load_email_config(file) ==
    CASE file.k = "missing" -> JNone                       \* except FileNotFoundError
      [] file.k = "unopenable" -> RaisedWith("OSError")    \* open(): not caught
      [] file.k = "not_utf8" -> RaisedWith("UnicodeDecodeError")  \* f.read(): not caught
      [] file.k = "invalid_json" -> JNone                  \* except json.JSONDecodeError
      [] file.k = "json" ->
           IF file.v.t # "dict" THEN RaisedWith("AttributeError")  \* config.get
           ELSE IF \/ ~Truthy(DictGet(file.v.v, "sender_email", JNone))
                   \/ ~Truthy(DictGet(file.v.v, "sender_password", JNone))
           THEN JNone
           ELSE file.v

Absent == [t |-> "absent"]

\* the dictionary with the keys whose value is not Absent
DictOf(fields) == JDict([k \in {n \in DOMAIN fields : fields[n] # Absent} |-> fields[k]])

SenderValues == {Absent, JNone, JStr(""), JStr("scanner@example.org")}
PasswordValues == {Absent, JNone, JStr(""), JStr("app-password")}

EmailConfigFiles ==
    {ConfigFile("missing", JNone), ConfigFile("unopenable", JNone),
     ConfigFile("not_utf8", JNone), ConfigFile("invalid_json", JNone),
     ConfigFile("json", JEmptyList), ConfigFile("json", JNone),
     ConfigFile("json", JStr("scanner@example.org"))}
        \cup {ConfigFile("json", DictOf([sender_email |-> e, sender_password |-> pw,
                                          recipient_email |-> r, smtp_server |-> srv])) :
                 e \in SenderValues, pw \in PasswordValues,
                 r \in {Absent, JStr("triage@example.org")},
                 srv \in {Absent, JStr("smtp.gmail.com")}}

InitEmail ==
    /\ FilterIdle(File("missing", {}))
    /\ report = NotCalled
    /\ email_config_file \in EmailConfigFiles
    /\ email_config = NotCalled
    /\ severity = JStr("medium")
    /\ cvss_score = NotCalled
    /\ FurtherIdle

\* main, line 314
load_email_config_call ==
    /\ email_config = NotCalled
    /\ email_config' = load_email_config(email_config_file)
    /\ UNCHANGED <<verified_fps, fp_file, save_raised>>
    /\ UNCHANGED batch_vars
    /\ UNCHANGED <<report, email_config_file, severity, cvss_score>>
    /\ UNCHANGED further_vars

NextEmail == load_email_config_call

SpecEmail == InitEmail /\ [][NextEmail]_vars

(***************************************************************************)
(* enhanced_report_generator.py: _calculate_cvss_score, scores in          *)
(* hundredths                                                              *)
(***************************************************************************)
\* variant: the severity is looked up as written
_calculate_cvss_score_NoLower(sev) ==
    IF ~IsStr(sev) THEN RaisedWith("AttributeError")
    ELSE CASE sev.v = "critical" -> JNum(950)
           [] sev.v = "high" -> JNum(750)
           [] sev.v = "medium" -> JNum(550)
           [] sev.v = "low" -> JNum(300)
           [] sev.v = "info" -> JNum(100)
           [] OTHER -> JNum(500)

_calculate_cvss_score(sev) ==
    IF ~IsStr(sev) THEN RaisedWith("AttributeError")    \* severity.lower()
    ELSE LET key == Lower(sev.v)
         IN CASE key = "critical" -> JNum(950)
              [] key = "high" -> JNum(750)
              [] key = "medium" -> JNum(550)
              [] key = "low" -> JNum(300)
              [] key = "info" -> JNum(100)
              [] OTHER -> JNum(500)

RECURSIVE CaseVariants(_)
\* the spellings of a lower-case word in upper and lower case letters
CaseVariants(word) ==
    IF word = "" THEN {""}
    ELSE LET c == CharAt(word, 1)
             j == CHOOSE n \in 1..26 : CharAt(LowerAlpha, n) = c
         IN {h \o rest : h \in {c, CharAt(UpperAlpha, j)},
                          rest \in CaseVariants(SubSeq(word, 2, Len(word)))}

SeverityLevels == <<"critical", "high", "medium", "low", "info">>

\* severities as reports carry them: the levels in any spelling, other
\* words, and a null
SeverityInputs ==
    {JStr(w) : w \in CaseVariants("high") \cup CaseVariants("medium")
                     \cup CaseVariants("low") \cup CaseVariants("info")}
        \cup {JStr("critical"), JStr("Critical"), JStr("CRITICAL"), JStr("cRiTiCaL")}
        \cup {JStr(""), JStr("unknown"), JStr("Urgent"), JStr("moderate"), JStr(" high"),
              JStr("high\n"), JStr("informational"), JStr("10"), JNone}

InitCvss ==
    /\ FilterIdle(File("missing", {}))
    /\ report = NotCalled
    /\ email_config_file = [k |-> "missing"]
    /\ email_config = NotCalled
    /\ severity \in SeverityInputs
    /\ cvss_score = NotCalled
    /\ FurtherIdle

\* _generate_template_report, line 315
_calculate_cvss_score_call ==
    /\ cvss_score = NotCalled
    /\ cvss_score' = _calculate_cvss_score(severity)
    /\ UNCHANGED <<verified_fps, fp_file, save_raised>>
    /\ UNCHANGED batch_vars
    /\ UNCHANGED <<report, email_config_file, email_config, severity>>
    /\ UNCHANGED further_vars

NextCvss == _calculate_cvss_score_call

SpecCvss == InitCvss /\ [][NextCvss]_vars

(***************************************************************************)
(* _parse_ai_response_text on its own: the texts a provider can send when  *)
(* its answer holds no JSON object                                         *)
(***************************************************************************)
\* the phrases of both lists, numbered 1..9
ListedPhrases == fp_phrases \o real_phrases

RECURSIVE Sentences(_, _)
\* a text that names the phrases numbered in S, one per sentence
Sentences(S, j) ==
    IF j > Len(ListedPhrases) THEN ""
    ELSE (IF j \in S THEN ListedPhrases[j] \o ". " ELSE "") \o Sentences(S, j + 1)

TextCase(text, present) == [text |-> text, present |-> present]

\* texts with the numbers of the listed phrases a reader finds in them
\* ("not exploitable", 2, holds "exploitable", 6)
TextCases ==
    {TextCase(Sentences(S, 1), S \cup (IF 2 \in S THEN {6} ELSE {})) :
        S \in SUBSET (1..Len(ListedPhrases))}
      \cup {TextCase("Not exploitable", {2, 6}),
            TextCase("This is a FALSE POSITIVE. The content is BENIGN.", {1, 3}),
            TextCase("benign benign benign, but exploitable and malicious", {3, 6, 9}),
            TextCase("safe safe safe safe safe safe", {4}),
            TextCase("unsafe: a real vulnerability", {4, 7}),
            TextCase("Vulnerabilities found", {}),
            TextCase("Exploitable Exploitable, not a test", {6})}

ResponseTexts == {c.text : c \in TextCases}

InitParse ==
    /\ FilterIdle(File("missing", {}))
    /\ report = NotCalled
    /\ email_config_file = [k |-> "missing"]
    /\ email_config = NotCalled
    /\ severity = JStr("medium")
    /\ cvss_score = NotCalled
    /\ response_text \in ResponseTexts
    /\ parsed_response = NotCalled
    /\ patterns_file = [k |-> "missing"]
    /\ false_positive_patterns = _load_fp_patterns(patterns_file)
    /\ other_verified_fps = {}

\* ai_analyze_finding, line 204 (and line 223 for HuggingFace)
_parse_ai_response_text_call ==
    /\ parsed_response = NotCalled
    /\ parsed_response' = _parse_ai_response_text(response_text)
    /\ UNCHANGED <<verified_fps, fp_file, save_raised>>
    /\ UNCHANGED batch_vars
    /\ UNCHANGED <<report, email_config_file, email_config, severity, cvss_score>>
    /\ UNCHANGED <<response_text, patterns_file, false_positive_patterns,
                   other_verified_fps>>

NextParse == _parse_ai_response_text_call

SpecParse == InitParse /\ [][NextParse]_vars

(***************************************************************************)
(* The filter constructed over a pattern file: config/                     *)
(* false_positive_patterns.json is missing, cannot be parsed, or holds a   *)
(* dictionary {source_tool: [regex, ...]}.  No provider answers.           *)
(***************************************************************************)
PatternFile(k, patterns) == [k |-> k, patterns |-> patterns]

PatternFiles ==
    {PatternFile("missing", <<>>), PatternFile("malformed", <<>>),
     PatternFile("ok", <<>>),
     PatternFile("ok", [zap |-> <<Pattern("internal-portal", Lit("internal-portal"))>>]),
     PatternFile("ok", [nuclei |-> <<Pattern("healthcheck", Lit("healthcheck"))>>])}

\* __init__, lines 34-38
InitOverride ==
    /\ FilterIdle(File("missing", {}))
    /\ report = NotCalled
    /\ email_config_file = [k |-> "missing"]
    /\ email_config = NotCalled
    /\ severity = JStr("medium")
    /\ cvss_score = NotCalled
    /\ response_text = ""
    /\ parsed_response = NotCalled
    /\ patterns_file \in PatternFiles
    /\ false_positive_patterns = _load_fp_patterns(patterns_file)
    /\ other_verified_fps = {}

NextOverride ==
    \/ \E batch \in SeqsUpTo(OverrideInputs, MaxBatch) : filter_findings_batch_call(batch)
    \/ \E answer \in OllamaDown : OllamaResponds(answer)
    \/ \E answer \in HuggingFaceDown : HuggingFaceResponds(answer)

SpecOverride == InitOverride /\ [][NextOverride]_vars

(***************************************************************************)
(* Two AIFalsePositiveFilter objects (two processes of the framework) over *)
(* the same config/verified_false_positives.json, each with the set it     *)
(* loaded at construction.  The first one also runs batches; the storage   *)
(* works and no provider answers.                                          *)
(***************************************************************************)
InitTwoFilters ==
    /\ \E file \in InitialFiles :
          /\ FilterIdle(file)
          /\ other_verified_fps = _load_verified_fps(file)
    /\ report = NotCalled
    /\ email_config_file = [k |-> "missing"]
    /\ email_config = NotCalled
    /\ severity = JStr("medium")
    /\ cvss_score = NotCalled
    /\ response_text = ""
    /\ parsed_response = NotCalled
    /\ patterns_file = [k |-> "missing"]
    /\ false_positive_patterns = _load_fp_patterns(patterns_file)

\* save_verified_fp (lines 390-403) called on the second object
other_save_verified_fp_call(finding_hash) ==
    /\ other_verified_fps' = other_verified_fps \cup {finding_hash}
    /\ fp_file' = File("ok", other_verified_fps')
    /\ save_raised' = FALSE
    /\ UNCHANGED verified_fps
    /\ UNCHANGED batch_vars
    /\ UNCHANGED <<report, email_config_file, email_config, severity, cvss_score>>
    /\ UNCHANGED <<response_text, parsed_response, patterns_file,
                   false_positive_patterns>>

NextTwoFilters ==
    \/ NextStorageOk
    \/ /\ pc \notin {"done", "raised"}
       /\ \E finding_hash \in ConfirmHashes : other_save_verified_fp_call(finding_hash)

SpecTwoFilters == InitTwoFilters /\ [][NextTwoFilters]_vars

(***************************************************************************)
(* A triage loop confirms one finding as a false positive, before or while *)
(* batches with findings of other content run.  The storage works and no   *)
(* provider answers.                                                       *)
(***************************************************************************)
ConfirmedFinding == VulnerabilityFindings(0, FindingColonInTitle)

NextConfirmOne ==
    \/ \E batch \in SeqsUpTo(CollidingInputs, MaxBatch) : filter_findings_batch_call(batch)
    \/ \E answer \in OllamaDown : OllamaResponds(answer)
    \/ \E answer \in HuggingFaceDown : HuggingFaceResponds(answer)
    \/ /\ pc \notin {"done", "raised"}
       /\ save_verified_fp_call(_generate_finding_hash(ConfirmedFinding), TRUE, "ok")

SpecConfirmOne == Init /\ [][NextConfirmOne]_vars

(***************************************************************************)
(* Properties                                                              *)
(***************************************************************************)
AnalysisDict(method, reason, conf) ==
    JDict([method |-> JStr(method), reasoning |-> JStr(reason), confidence |-> JNum(conf)])

\* the finding carries the label of a deterministic step
LabelledBy(o, method, reason, conf) ==
    /\ o.is_false_positive = JBool(TRUE)
    /\ o.confidence = JNum(conf)
    /\ o.ai_analysis = AnalysisDict(method, reason, conf)

HasMethod(o, method) ==
    /\ o.ai_analysis.t = "dict"
    /\ "method" \in DOMAIN o.ai_analysis.v
    /\ o.ai_analysis.v.method = JStr(method)

\* the finding was labelled by the AI step: ai_analysis is a provider's answer
\* or the fallback, which carry no method key
LabelledByAI(o) == o.ai_analysis.t = "dict" /\ "method" \notin DOMAIN o.ai_analysis.v

Quadruple(o) == <<o.type, o.url, o.title, o.evidence>>

\* the pattern rules and the context rules both match the finding
MatchesBoth(o) ==
    /\ ~ChecksOf(o).pattern.exc /\ ChecksOf(o).pattern.is_fp
    /\ ~ChecksOf(o).context.exc /\ ChecksOf(o).context.is_fp

\* a step of the batch coroutine
BatchStep == analyzed_findings' # analyzed_findings \/ (pc = "idle" /\ pc' # "idle")

\* the first finding whose checks run in this step
FirstChecked == Len(analyzed_findings) + (IF pc = "idle" THEN 1 ELSE 2)

\* the findings whose fingerprint check ran in this step and hit
FingerprintHits ==
    {i \in FirstChecked..Len(vuln_findings') :
        /\ \/ i <= Len(analyzed_findings')
           \/ /\ i = Len(analyzed_findings') + 1
              /\ pc' = "ollama" \/ exception' \in {"check_pattern_based_fp", "_analyze_context"}
        /\ _generate_finding_hash(vuln_findings'[i]) \in verified_fps}

SameFingerprints ==
    \A i, j \in DOMAIN vuln_findings :
        Quadruple(vuln_findings[i]) = Quadruple(vuln_findings[j])
            => _generate_finding_hash(vuln_findings[i]) = _generate_finding_hash(vuln_findings[j])

FingerprintHitsLabelled(method) ==
    BatchStep =>
        \A i \in FingerprintHits :
            /\ i <= Len(analyzed_findings')
            /\ LabelledBy(analyzed_findings'[i], method,
                          "Previously verified false positive", 90)

C2_AIUnavailableFailsOpen ==
    [][\A answer \in HuggingFaceDown :
        (pc = "huggingface" /\ HuggingFaceResponds(answer)) =>
            LET i == Len(analyzed_findings) + 1
            IN /\ Len(analyzed_findings') >= i
               /\ exception' # "print" \/ Len(analyzed_findings') > i
               /\ analyzed_findings'[i].is_false_positive = JBool(FALSE)
               /\ analyzed_findings'[i].confidence = JNum(0)
               /\ LabelledByAI(analyzed_findings'[i])
               /\ analyzed_findings'[i].ai_analysis.v.reasoning
                      = JStr("AI analysis unavailable")]_vars

C2_Witness ==
    \E i \in DOMAIN analyzed_findings :
        /\ ai_requests[i] = [ollama |-> 1, huggingface |-> 1]
        /\ LabelledByAI(analyzed_findings[i])
        /\ analyzed_findings[i].ai_analysis.v.reasoning = JStr("AI analysis unavailable")
        /\ analyzed_findings[i].confidence = JNum(0)

\* C3: an analysed finding that the pattern rules and the context rules both
\* match carries the pattern step's method and confidence 0.9, never the
\* context step's; unless its fingerprint is verified, its reason is the
\* pattern rule's.
C3_PatternBeforeContext ==
    \A i \in DOMAIN analyzed_findings :
        LET o == analyzed_findings[i]
        IN MatchesBoth(o) =>
            /\ HasMethod(o, "pattern_matching")
            /\ ~HasMethod(o, "context_analysis")
            /\ o.confidence = JNum(90)
            /\ _generate_finding_hash(o) \notin verified_fps
                   => LabelledBy(o, "pattern_matching", ChecksOf(o).pattern.reason, 90)

C3_Witness ==
    \E i \in DOMAIN analyzed_findings :
        /\ MatchesBoth(analyzed_findings[i])
        /\ _generate_finding_hash(analyzed_findings[i]) \notin verified_fps
        /\ ChecksOf(analyzed_findings[i]).context.reason
               = "Development environment detected: staging."
        /\ HasMethod(analyzed_findings[i], "pattern_matching")

\* C4: every analysed finding has a confidence that is a number in [0, 1].
C4_ConfidenceInUnitInterval ==
    \A i \in DOMAIN analyzed_findings :
        /\ analyzed_findings[i].confidence.t = "num"
        /\ analyzed_findings[i].confidence.v >= 0
        /\ analyzed_findings[i].confidence.v <= 100

\* C5: every analysed finding with a true is_false_positive has a non-empty
\* string as its reasoning.
C5_FalsePositiveHasReason ==
    \A i \in DOMAIN analyzed_findings :
        Truthy(analyzed_findings[i].is_false_positive) =>
            /\ analyzed_findings[i].ai_analysis.t = "dict"
            /\ "reasoning" \in DOMAIN analyzed_findings[i].ai_analysis.v
            /\ analyzed_findings[i].ai_analysis.v.reasoning.t = "str"
            /\ analyzed_findings[i].ai_analysis.v.reasoning.v # ""

\* C6: no exception leaves the batch, and a batch that has returned has
\* analysed every input finding.
C6_BatchAlwaysCompletes ==
    /\ pc # "raised"
    /\ pc = "done" => Len(analyzed_findings) = Len(findings)

\* the finding was decided by the fingerprint, pattern or context step
DeterministicHit(o) == HasMethod(o, "pattern_matching") \/ HasMethod(o, "context_analysis")

\* the pattern rules or the context rules match the finding
RulesMatch(o) == ChecksOf(o).pattern.is_fp \/ ChecksOf(o).context.is_fp

\* the indices of the analysed findings no deterministic step decided
Remaining == {i \in DOMAIN analyzed_findings : ~DeterministicHit(analyzed_findings[i])}

\* the k-th smallest element of a set of numbers
Kth(S, k) == CHOOSE i \in S : Cardinality({j \in S : j <= i}) = k

\* C7: in a batch that returned while no provider answered, the findings
\* decided by a deterministic step are those the rules match or whose
\* fingerprint is verified, the false-positive count is their number, and
\* the returned list holds exactly the other findings, in order, each with
\* the "AI analysis unavailable" label; for the ten findings of scenario E
\* and no verified fingerprint the count is 5 and 5 findings are returned.
C7_CountWhenAIDown ==
    pc = "done" =>
        /\ \A i \in DOMAIN analyzed_findings :
            LET o == analyzed_findings[i]
            IN /\ RulesMatch(o) => DeterministicHit(o)
               /\ DeterministicHit(o) =>
                      RulesMatch(o) \/ _generate_finding_hash(o) \in verified_fps
        /\ Len(analyzed_findings) = Len(findings)
        /\ false_positive_count
               = Cardinality({i \in DOMAIN analyzed_findings :
                                 DeterministicHit(analyzed_findings[i])})
        /\ Len(filtered_findings) = Cardinality(Remaining)
        /\ \A k \in DOMAIN filtered_findings :
            LET o == analyzed_findings[Kth(Remaining, k)]
            IN /\ filtered_findings[k].id = o.id
               /\ filtered_findings[k].url = o.url
               /\ filtered_findings[k].evidence = o.evidence
               /\ filtered_findings[k].confidence = JNum(0)
               /\ filtered_findings[k].ai_analysis.v.reasoning
                      = JStr("AI analysis unavailable")
        /\ (findings = ScenarioE /\ verified_fps = {}) =>
            /\ false_positive_count = 5
            /\ Len(filtered_findings) = 5
            /\ [k \in 1..5 |-> filtered_findings[k].id.v] = <<"1", "b2", "b3", "b4", "b5">>

C7_Witness ==
    /\ pc = "done"
    /\ findings = ScenarioE
    /\ verified_fps = {}
    /\ false_positive_count = 5
    /\ Len(filtered_findings) = 5

\* the analysed findings that came from the given input record and whose
\* fingerprint is not verified
AnalysedFrom(input) ==
    {i \in DOMAIN analyzed_findings :
        /\ findings[i] = input
        /\ _generate_finding_hash(analyzed_findings[i]) \notin verified_fps}

\* C8 as stated: the finding {url: "https://staging.target.com/login"} is
\* decided by the context heuristic on the indicator staging., with
\* confidence 0.8.
C8_StagingDecidedByContext ==
    \A i \in AnalysedFrom(FindingC) :
        LabelledBy(analyzed_findings[i], "context_analysis",
                   "Development environment detected: staging.", 80)

\* C8 amended: the finding {url: "https://staging.target.com/login"} is
\* decided by the pattern step on the generic pattern staging|dev|test|demo,
\* with confidence 0.9.
C8_StagingDecidedByGenericPattern ==
    \A i \in AnalysedFrom(FindingC) :
        LabelledBy(analyzed_findings[i], "pattern_matching",
                   "Generic FP pattern matched: staging|dev|test|demo", 90)

C8_Witness == AnalysedFrom(FindingC) # {} /\ pc = "done"

\* C9 as stated: the nuclei finding with url
\* "http://test.example.com/test.php?id=1" is decided in the pattern step by
\* the generic pattern example\.(com|org|net), with confidence 0.9.
C9_ScenarioADecidedByGenericExample ==
    \A i \in AnalysedFrom(FindingA) :
        LabelledBy(analyzed_findings[i], "pattern_matching",
                   "Generic FP pattern matched: example\\.(com|org|net)", 90)

\* C9 amended: that finding is decided in the pattern step by the nuclei
\* pattern test\.php\?id=\d+ on its url, with confidence 0.9.
C9_ScenarioADecidedByToolPattern ==
    \A i \in AnalysedFrom(FindingA) :
        LabelledBy(analyzed_findings[i], "pattern_matching",
                   "URL matches FP pattern: test\\.php\\?id=\\d+", 90)

C9_Witness ==
    \E i \in AnalysedFrom(FindingA) : analyzed_findings[i].source_tool = JStr("nuclei")

\* C10: no exception raised by the pattern check (which holds the
\* fingerprint check) or by the context check leaves the batch.
C10_CheckExceptionsAreCaught ==
    exception \notin {"check_pattern_based_fp", "_analyze_context"}

\* the hashes a later process would load from the file
Persisted == _load_verified_fps(fp_file)

C12_StorageFailuresNeverCrash ==
    /\ fp_file.k # "ok" => verified_fps = {}
    /\ [][\A h \in ConfirmHashes, mkdir_ok \in BOOLEAN,
            write \in {"ok", "open_fails", "dump_fails"} :
            save_verified_fp_call(h, mkdir_ok, write) =>
                (~save_raised' /\ h \in verified_fps')]_vars

StringFields == {"type", "url", "title", "description", "evidence", "source_tool"}

\* the input record whose analysis raised
RaisedOn == findings[Len(analyzed_findings) + 1]

\* every string field, the severity and the id a record lacks have the
\* given values in its VulnerabilityFindings object, and an exception of a
\* check comes from a field that is present and is not a string
MissingFieldsBecome(default) ==
    /\ \A i \in DOMAIN vuln_findings :
        /\ \A k \in StringFields \ DOMAIN findings[i] : vuln_findings[i][k] = JStr(default[k])
        /\ "severity" \notin DOMAIN findings[i] => vuln_findings[i].severity = JStr("medium")
        /\ "id" \notin DOMAIN findings[i] => vuln_findings[i].id = JStr(IntToStr(i - 1))
    /\ exception \in {"check_pattern_based_fp", "_analyze_context"} =>
           \E k \in DOMAIN RaisedOn : ~IsStr(RaisedOn[k])

\* C13 as stated: a missing type, url, title, description, evidence or
\* source_tool becomes the empty string, a missing severity "medium", a
\* missing id the list index, and no batch raises because a field is missing.
C13_MissingFieldsAreEmpty ==
    MissingFieldsBecome([k \in StringFields |-> ""])

\* C13 amended: a missing url, title, description or evidence becomes the
\* empty string, a missing type or source_tool the string "unknown", a
\* missing severity "medium", a missing id the list index as a string, and
\* no batch raises because a field is missing.
C13_MissingTypeAndToolAreUnknown ==
    MissingFieldsBecome([k \in StringFields |->
                            IF k \in {"type", "source_tool"} THEN "unknown" ELSE ""])

\* a record with nothing but a url and an evidence went through a batch
C13_Witness ==
    /\ pc = "done"
    /\ \E i \in DOMAIN vuln_findings :
        /\ DOMAIN findings[i] = {"url", "evidence"}
        /\ vuln_findings[i].type = JStr("unknown")
        /\ vuln_findings[i].source_tool = JStr("unknown")
        /\ vuln_findings[i].title = JStr("")
        /\ vuln_findings[i].severity = JStr("medium")
        /\ i = 2 /\ vuln_findings[i].id = JStr("1")

\* C14: the report main writes after a batch states as total the number of
\* input findings, as false positives the number of findings the batch
\* classified as false positive, as valid the rest, and has one detail
\* section per false positive.
C14_ReportCountsTheBatch ==
    report # NotCalled =>
        /\ ~report.exc
        /\ report.total = Len(findings)
        /\ report.false_positives = false_positive_count
        /\ report.false_positives
               = Cardinality({i \in DOMAIN analyzed_findings :
                                 Truthy(analyzed_findings[i].is_false_positive)})
        /\ report.valid = report.total - report.false_positives
        /\ Len(report.details) = report.false_positives

\* the file holds a JSON object with a non-empty sender_email and a
\* non-empty sender_password
Configured(file) ==
    /\ file.k = "json"
    /\ file.v.t = "dict"
    /\ \A key \in {"sender_email", "sender_password"} :
        /\ key \in DOMAIN file.v.v
        /\ file.v.v[key].t = "str"
        /\ file.v.v[key].v # ""

\* C15: load_email_config never raises; it returns None when the file is
\* missing, is not valid JSON, or holds no non-empty sender_email and
\* sender_password, and returns the configuration when it holds both.
C15_LoadEmailConfigNeverRaises ==
    email_config # NotCalled =>
        /\ email_config.t # "raised"
        /\ Configured(email_config_file) => email_config = email_config_file.v
        /\ ~Configured(email_config_file) => email_config = JNone

\* the severity is a spelling of the level in upper and lower case letters
Spells(level) == IsStr(severity) /\ severity.v \in CaseVariants(level)

\* C16: for every severity string _calculate_cvss_score returns a number in
\* [0, 10]: 9.5 for critical, 7.5 for high, 5.5 for medium, 3.0 for low, 1.0
\* for info in any spelling of upper and lower case, and 5.0 for any other
\* string.
C16_CvssScoreBySeverity ==
    (cvss_score # NotCalled /\ IsStr(severity)) =>
        /\ cvss_score.t = "num"
        /\ cvss_score.v >= 0 /\ cvss_score.v <= 1000
        /\ Spells("critical") => cvss_score = JNum(950)
        /\ Spells("high") => cvss_score = JNum(750)
        /\ Spells("medium") => cvss_score = JNum(550)
        /\ Spells("low") => cvss_score = JNum(300)
        /\ Spells("info") => cvss_score = JNum(100)
        /\ (\A j \in DOMAIN SeverityLevels : ~Spells(SeverityLevels[j]))
               => cvss_score = JNum(500)

\* a level in mixed case was scored
C16_Witness == severity = JStr("mEdIuM") /\ cvss_score = JNum(550)

\* the requests posted to Ollama for finding i before this step
OllamaRequestsBefore(i) == IF i \in DOMAIN ai_requests THEN ai_requests[i].ollama ELSE 0

\* neither the pattern rules nor the context rules match or raise
ChecksMiss(o) ==
    /\ ~ChecksOf(o).pattern.exc /\ ~ChecksOf(o).pattern.is_fp
    /\ ~ChecksOf(o).context.exc /\ ~ChecksOf(o).context.is_fp

\* C17: a request is posted to an AI provider for a finding only when its
\* fingerprint is not verified and the pattern check and the context check
\* both returned no match; HuggingFace is asked only after Ollama; and no
\* request is ever posted for a finding that the fingerprint, pattern or
\* context step decided.
C17_AIOnlyAfterChecksMiss ==
    [][\A i \in DOMAIN ai_requests' :
        /\ ai_requests'[i].ollama > OllamaRequestsBefore(i) =>
               /\ _generate_finding_hash(vuln_findings'[i]) \notin verified_fps
               /\ ChecksMiss(vuln_findings'[i])
        /\ ai_requests'[i].huggingface <= ai_requests'[i].ollama
        /\ ai_requests'[i] # NoRequests => ChecksMiss(vuln_findings'[i])
        /\ (i \in DOMAIN analyzed_findings' /\ DeterministicHit(analyzed_findings'[i]))
               => ai_requests'[i] = NoRequests]_vars

\* a batch whose first finding a deterministic step decided without a
\* request and whose second finding went to both providers
C17_Witness ==
    /\ Len(analyzed_findings) = 2
    /\ DeterministicHit(analyzed_findings[1]) /\ ai_requests[1] = NoRequests
    /\ LabelledByAI(analyzed_findings[2])
    /\ ai_requests[2] = [ollama |-> 1, huggingface |-> 1]

\* the objects of the findings that exercise the rules
CheckObjects == {VulnerabilityFindings(0, f) : f \in CheckInputs}

\* url, evidence and title are strings
TextFields(o) == IsStr(o.url) /\ IsStr(o.evidence) /\ IsStr(o.title)

\* the source_tool is a key of the tool-specific pattern table
KnownTool(o) == IsStr(o.source_tool) /\ o.source_tool.v \in {"nuclei", "xss", "sqli"}

\* the least element of a non-empty set of numbers, 0 for the empty set
Least(S) == IF S = {} THEN 0 ELSE CHOOSE j \in S : \A m \in S : j <= m

\* the first pattern of the list found in the text, upper and lower case
\* taken as equal; 0 if there is none
FirstToolHit(patterns, text) ==
    Least({j \in DOMAIN patterns : SearchIgnoreCase(patterns[j].re, text)})

\* the outcome of the generic patterns, tried in their listed order on the
\* lower-cased "url title evidence"
GenericOutcome(o) ==
    LET text == Lower(Format(o.url) \o " " \o Format(o.title) \o " " \o Format(o.evidence))
        g == Least({j \in DOMAIN generic_fp_patterns :
                       Search(generic_fp_patterns[j].re, text)})
    IN IF g = 0 THEN Result(FALSE, "")
       ELSE Result(TRUE, "Generic FP pattern matched: " \o generic_fp_patterns[g].src)

\* the outcome C18 describes for an object with text fields
PatternOutcome(o) ==
    LET patterns == IF KnownTool(o) THEN fp_indicators[o.source_tool.v] ELSE <<>>
        u == FirstToolHit(patterns, o.url.v)
        e == FirstToolHit(patterns, o.evidence.v)
        t == FirstToolHit(patterns, o.title.v)
    IN IF u # 0 THEN Result(TRUE, "URL matches FP pattern: " \o patterns[u].src)
       ELSE IF e # 0 THEN Result(TRUE, "Evidence matches FP pattern: " \o patterns[e].src)
       ELSE IF t # 0 THEN Result(TRUE, "Title matches FP pattern: " \o patterns[t].src)
       ELSE GenericOutcome(o)

\* PatternOutcome and GenericOutcome of the objects, evaluated once
PatternOutcomes ==
    {[key |-> ContentKey(o), outcome |-> PatternOutcome(o)] :
        o \in {x \in CheckObjects : TextFields(x)}}
GenericOutcomes ==
    {[key |-> ContentKey(o), outcome |-> GenericOutcome(o)] :
        o \in {x \in CheckObjects : ~KnownTool(x)}}

PatternOutcomeOf(o) == (CHOOSE m \in PatternOutcomes : m.key = ContentKey(o)).outcome
GenericOutcomeOf(o) == (CHOOSE m \in GenericOutcomes : m.key = ContentKey(o)).outcome

\* the analysed finding i carries the pattern step's label exactly when the
\* outcome is a match, and then with the outcome's reason
PatternLabelFollows(i, outcome) ==
    i \in DOMAIN analyzed_findings =>
        /\ outcome.is_fp <=> HasMethod(analyzed_findings[i], "pattern_matching")
        /\ outcome.is_fp =>
               LabelledBy(analyzed_findings[i], "pattern_matching", outcome.reason, 90)

\* C18: for a finding with text fields whose fingerprint is not verified,
\* the pattern check returns the first tool-specific pattern found in the
\* url, else in the evidence, else in the title, with the reason "URL /
\* Evidence / Title matches FP pattern: <pattern>"; else the first generic
\* pattern, in listed order, found in the lower-cased "url title evidence",
\* with the reason "Generic FP pattern matched: <pattern>"; else (false, "").
C18_PatternCheckOrder ==
    \A i \in DOMAIN vuln_findings :
        LET o == vuln_findings[i]
        IN (TextFields(o) /\ _generate_finding_hash(o) \notin verified_fps) =>
            /\ ChecksOf(o).pattern = PatternOutcomeOf(o)
            /\ PatternLabelFollows(i, PatternOutcomeOf(o))

\* a batch of a finding whose url and evidence both hit (the url wins) and
\* of one that only the evidence hits
C18_Witness ==
    /\ findings = <<FindingUrlAndEvidenceHit, FindingEvidenceHit>>
    /\ Len(analyzed_findings) = 2
    /\ LabelledBy(analyzed_findings[1], "pattern_matching",
                  "URL matches FP pattern: dev\\.", 90)
    /\ LabelledBy(analyzed_findings[2], "pattern_matching",
                  "Evidence matches FP pattern: mysql_error", 90)

\* C19: for a finding whose source_tool is empty, null or no key of the
\* tool-specific table, the pattern check raises nothing, whatever the
\* other fields are, and returns the outcome of the generic patterns alone.
C19_UnknownToolOnlyGeneric ==
    \A i \in DOMAIN vuln_findings :
        LET o == vuln_findings[i]
        IN ~KnownTool(o) =>
            /\ ~ChecksOf(o).pattern.exc
            /\ ChecksOf(o).pattern = GenericOutcomeOf(o)
            /\ exception = "check_pattern_based_fp" => i # Len(analyzed_findings) + 1
            /\ _generate_finding_hash(o) \notin verified_fps
                   => PatternLabelFollows(i, GenericOutcomeOf(o))

\* a finding of another tool whose url a nuclei pattern would hit went on to
\* the context step, and the pattern check of a finding with an empty
\* source_tool and null fields returned (the context check then raised)
C19_Witness ==
    /\ findings = <<FindingLoopbackOtherTool, FindingEmptyToolNulls>>
    /\ Len(analyzed_findings) = 1
    /\ HasMethod(analyzed_findings[1], "context_analysis")
    /\ exception = "_analyze_context"

\* the position of the first occurrence of sub in s at or after from, 0 if
\* there is none
Find(s, sub, from) ==
    Least({i \in from..(Len(s) - Len(sub) + 1) : SubSeq(s, i, i + Len(sub) - 1) = sub})

\* the host part of a URL: what follows "://" up to the next "/", "?" or "#"
HostOf(url) ==
    LET scheme == Find(url, "://", 1)
        start == IF scheme = 0 THEN 1 ELSE scheme + 3
        stops == {Find(url, c, start) : c \in {"/", "?", "#"}} \ {0}
        end == IF stops = {} THEN Len(url) ELSE Least(stops) - 1
    IN SubSeq(url, start, end)

EndsWith(s, suffix) ==
    Len(s) >= Len(suffix) /\ SubSeq(s, Len(s) - Len(suffix) + 1, Len(s)) = suffix

\* the outcome C20 describes for an object with a text url and evidence
ContextOutcome(o) ==
    LET host == Lower(HostOf(o.url.v))
        d == Least({j \in DOMAIN dev_indicators : Contains(host, dev_indicators[j])})
        content == Lower(Format(o.title) \o " " \o Format(o.description) \o " "
                           \o Format(o.evidence))
        c == Least({j \in DOMAIN test_indicators : Contains(content, test_indicators[j])})
    IN IF d # 0
       THEN Result(TRUE, "Development environment detected: " \o dev_indicators[d])
       ELSE IF c # 0 THEN Result(TRUE, "Test content detected: " \o test_indicators[c])
       ELSE IF Contains(o.url.v, "/test/") THEN Result(TRUE, "Test directory in URL path")
       ELSE IF \E ext \in {".txt", ".log", ".bak", ".old"} : EndsWith(o.url.v, ext)
       THEN Result(TRUE, "Non-executable file extension")
       ELSE IF Contains(o.evidence.v, "404") \/ Contains(o.evidence.v, "403")
       THEN Result(TRUE, "HTTP error status in evidence")
       ELSE Result(FALSE, "")

\* ContextOutcome of the objects, evaluated once
ContextOutcomes ==
    {[key |-> ContentKey(o), outcome |-> ContextOutcome(o)] :
        o \in {x \in CheckObjects : IsStr(x.url) /\ IsStr(x.evidence)}}

ContextOutcomeOf(o) == (CHOOSE m \in ContextOutcomes : m.key = ContentKey(o)).outcome

\* C20: the context heuristic returns the first match of (1) the host of
\* the url contains localhost, 127.0.0.1, dev., staging., test. or demo.,
\* (2) title, description and evidence contain test, sample, demo, example
\* or dummy, (3) the url has a /test/ segment, (4) the url ends in .txt,
\* .log, .bak or .old, (5) the evidence contains 404 or 403, with the reason
\* "HTTP error status in evidence", and (6) no match otherwise; a finding
\* the pattern check missed is decided by the context step accordingly.
C20_ContextChecksInOrder ==
    \A i \in DOMAIN vuln_findings :
        LET o == vuln_findings[i]
        IN (IsStr(o.url) /\ IsStr(o.evidence)) =>
            /\ ChecksOf(o).context = ContextOutcomeOf(o)
            /\ (i \in DOMAIN analyzed_findings /\ ~ChecksOf(o).pattern.is_fp
                 /\ _generate_finding_hash(o) \notin verified_fps) =>
                   /\ ContextOutcomeOf(o).is_fp
                          <=> HasMethod(analyzed_findings[i], "context_analysis")
                   /\ ContextOutcomeOf(o).is_fp =>
                          LabelledBy(analyzed_findings[i], "context_analysis",
                                     ContextOutcomeOf(o).reason, 80)

\* the phrases a reader finds in the text under analysis
PhrasesPresent == (CHOOSE c \in TextCases : c.text = response_text).present
FpCount == Cardinality(PhrasesPresent \cap (1..Len(fp_phrases)))
VulnCount == Cardinality(PhrasesPresent \ (1..Len(fp_phrases)))

\* C21: the text heuristic counts the false-positive-suggestive and the
\* vulnerability-suggestive phrases that occur in the text, labels the
\* finding a false positive if and only if the false positive count exceeds
\* the vulnerability count, and sets the confidence to
\* min(0.8, max(0.3, |fp_count - vuln_count| / 10)).
C21_TextHeuristic ==
    parsed_response # NotCalled =>
        /\ parsed_response.is_false_positive = JBool(FpCount > VulnCount)
        /\ parsed_response.confidence =
               JNum(Min(80, Max(30, Abs(FpCount - VulnCount) * 10)))

\* a text with more false positive phrases than vulnerability phrases and
\* one with fewer have been parsed
C21_Witness ==
    /\ parsed_response # NotCalled
    /\ FpCount = 4 /\ VulnCount = 0
    /\ parsed_response.is_false_positive = JBool(TRUE)
    /\ parsed_response.confidence = JNum(40)

\* C30: in the text parse each listed phrase scores once however often it
\* occurs, by substring presence, so the false positive score is at most 5
\* and the vulnerability score at most 4; a tie is not a false positive; a
\* text whose only listed phrase is "not exploitable" scores 1 to 1 and is
\* not a false positive; the confidence lies in [0.3, 0.5].
C30_PhrasesScoreOnce ==
    LET response_lower == Lower(response_text)
        fp_score == Score(fp_phrases, response_lower)
        real_score == Score(real_phrases, response_lower)
    IN /\ fp_score = FpCount /\ fp_score <= 5
       /\ real_score = VulnCount /\ real_score <= 4
       /\ parsed_response # NotCalled =>
            /\ fp_score = real_score => parsed_response.is_false_positive = JBool(FALSE)
            /\ PhrasesPresent = {2, 6} =>
                   /\ fp_score = 1 /\ real_score = 1
                   /\ parsed_response.is_false_positive = JBool(FALSE)
            /\ parsed_response.confidence.v >= 30
            /\ parsed_response.confidence.v <= 50

\* "Not exploitable" has been parsed
C30_Witness ==
    /\ response_text = "Not exploitable"
    /\ parsed_response # NotCalled
    /\ parsed_response.is_false_positive = JBool(FALSE)
    /\ parsed_response.confidence = JNum(30)

\* a pattern the file registers for the finding's source_tool matches its
\* url, evidence or title
OverrideMatches(o) ==
    /\ IsStr(o.source_tool)
    /\ o.source_tool.v \in DOMAIN false_positive_patterns
    /\ \E j \in DOMAIN false_positive_patterns[o.source_tool.v] :
         \E field \in {o.url, o.evidence, o.title} :
            /\ IsStr(field)
            /\ SearchIgnoreCase(false_positive_patterns[o.source_tool.v][j].re, field.v)

\* C22: the patterns of the override file are applied by the pattern check:
\* a finding that matches only an override pattern registered for its
\* source_tool is a pattern-match false positive; with a missing or
\* malformed file exactly the built-in patterns decide.
C22_OverridePatternsAreApplied ==
    \A i \in DOMAIN analyzed_findings :
        LET o == analyzed_findings[i]
        IN /\ OverrideMatches(o) => HasMethod(o, "pattern_matching")
           /\ patterns_file.k # "ok" =>
                  (HasMethod(o, "pattern_matching") <=> ChecksOf(o).pattern.is_fp)

\* C23: writes of the verified store are serialized: whatever the order of
\* the adds of two filters that loaded the same file, once the adds have
\* finished the persisted set holds every added hash (no lost update).
C23_NoLostUpdate ==
    (verified_fps \cup other_verified_fps) \subseteq _load_verified_fps(fp_file)

\* the object is as the conversion made it: no derived field written
Unclassified(o) ==
    /\ o.is_false_positive = JBool(FALSE)
    /\ o.confidence = JNum(0)
    /\ o.ai_analysis = JNone

\* the terminal states the derived fields of the object stand for
TerminalStates(o) ==
    {st \in {"FingerprintHit", "PatternHit", "ContextHit", "AIResolved", "AIUnavailable"} :
        CASE st = "FingerprintHit" ->
               LabelledBy(o, "pattern_matching", "Previously verified false positive", 90)
          [] st = "PatternHit" ->
               /\ HasMethod(o, "pattern_matching")
               /\ o.ai_analysis.v.reasoning # JStr("Previously verified false positive")
               /\ o.is_false_positive = JBool(TRUE)
          [] st = "ContextHit" ->
               HasMethod(o, "context_analysis") /\ o.is_false_positive = JBool(TRUE)
          [] st = "AIUnavailable" -> o.ai_analysis = JDict(AIUnavailable)
          [] st = "AIResolved" -> LabelledByAI(o) /\ o.ai_analysis # JDict(AIUnavailable)}

\* C24: in a run every analysed finding is in exactly one of the terminal
\* states FingerprintHit, PatternHit, ContextHit, AIResolved, AIUnavailable,
\* every other finding of the batch is unclassified, and a finding in a
\* terminal state keeps its state and its derived fields in every later step.
C24_OneTerminalState ==
    [][/\ \A i \in DOMAIN vuln_findings' :
            IF i \in DOMAIN analyzed_findings'
            THEN /\ vuln_findings'[i] = analyzed_findings'[i]
                 /\ Cardinality(TerminalStates(vuln_findings'[i])) = 1
            ELSE Unclassified(vuln_findings'[i])
       /\ \A i \in DOMAIN analyzed_findings :
            /\ i \in DOMAIN analyzed_findings'
            /\ analyzed_findings'[i] = analyzed_findings[i]
            /\ vuln_findings'[i] = vuln_findings[i]]_vars

\* a batch returned with one finding decided by the context step and one
\* resolved by a provider
C24_Witness ==
    /\ pc = "done"
    /\ \E i, j \in DOMAIN analyzed_findings :
         /\ i < j
         /\ TerminalStates(analyzed_findings[i]) = {"AIResolved"}
         /\ TerminalStates(analyzed_findings[j]) = {"ContextHit"}

\* the batch coroutine, a provider's answer included, ran in this step
ClassificationStep ==
    \/ pc' # pc
    \/ analyzed_findings' # analyzed_findings
    \/ vuln_findings' # vuln_findings
    \/ ai_requests' # ai_requests

\* C25: classification never changes the verified set nor its file, also
\* when a step labels a finding a false positive; the set changes only by
\* save_verified_fp, which adds its argument; nothing removes a fingerprint.
C25_ClassificationKeepsVerifiedSet ==
    [][/\ verified_fps \subseteq verified_fps'
       /\ ClassificationStep => (verified_fps' = verified_fps /\ fp_file' = fp_file)
       /\ verified_fps' # verified_fps =>
            /\ \E h \in ConfirmHashes : verified_fps' = verified_fps \cup {h}
            /\ UNCHANGED batch_vars]_vars

\* a batch returned in which the pattern step, the context step and the AI
\* step each labelled a finding a false positive whose fingerprint is not
\* in the verified set
C25_Witness ==
    /\ pc = "done"
    /\ \E i \in DOMAIN analyzed_findings :
         /\ TerminalStates(analyzed_findings[i]) \in {{"PatternHit"}, {"ContextHit"}}
         /\ _generate_finding_hash(analyzed_findings[i]) \notin verified_fps
    /\ \E i \in DOMAIN analyzed_findings :
         /\ TerminalStates(analyzed_findings[i]) = {"AIResolved"}
         /\ analyzed_findings[i].is_false_positive = JBool(TRUE)
         /\ _generate_finding_hash(analyzed_findings[i]) \notin verified_fps

\* the finding whose AI step is under way
Current == Len(analyzed_findings) + 1

\* C26: for one finding each provider is requested at most once (no retry);
\* HuggingFace is requested only when the request to Ollama failed, and is
\* not requested once Ollama delivered a result; when HuggingFace has
\* answered or failed, the finding is labelled with the text result or with
\* "AI analysis unavailable", no exception leaves the AI step and the batch
\* goes on with the next finding.
C26_ProvidersAskedOnceInOrder ==
    [][/\ \A i \in DOMAIN ai_requests' :
            /\ ai_requests'[i].ollama <= 1
            /\ ai_requests'[i].huggingface <= ai_requests'[i].ollama
       /\ pc = "ollama" =>
            \/ UNCHANGED batch_vars
            \/ /\ pc' = "huggingface"
               /\ ai_requests' = [ai_requests EXCEPT ![Current].huggingface = 1]
               /\ analyzed_findings' = analyzed_findings
            \/ /\ Len(analyzed_findings') >= Current
               /\ LabelledByAI(analyzed_findings'[Current])
               /\ analyzed_findings'[Current].ai_analysis # JDict(AIUnavailable)
               /\ ai_requests'[Current] = [ollama |-> 1, huggingface |-> 0]
       /\ pc = "huggingface" =>
            \/ UNCHANGED batch_vars
            \/ /\ Len(analyzed_findings') >= Current
               /\ ai_requests'[Current] = [ollama |-> 1, huggingface |-> 1]
               /\ LabelledByAI(analyzed_findings'[Current])
               /\ \/ analyzed_findings'[Current].ai_analysis = JDict(AIUnavailable)
                  \/ \E text \in AITextAnswers :
                        analyzed_findings'[Current].ai_analysis = JDict(ParsedText(text))
               /\ exception' # "print"
               /\ pc' \in {"ollama", "done", "raised"}
               /\ pc' = "raised" => Len(analyzed_findings') < Len(vuln_findings')]_vars

\* a batch returned in which no provider answered for one finding and Ollama
\* answered at once for a later one
C26_Witness ==
    /\ pc = "done"
    /\ \E i, j \in DOMAIN analyzed_findings :
         /\ i < j
         /\ ai_requests[i] = [ollama |-> 1, huggingface |-> 1]
         /\ analyzed_findings[i].ai_analysis = JDict(AIUnavailable)
         /\ ai_requests[j] = [ollama |-> 1, huggingface |-> 0]
         /\ TerminalStates(analyzed_findings[j]) = {"AIResolved"}

\* the object of finding i before any derived field was written
Converted(i) == VulnerabilityFindings(i - 1, findings[i])

\* the label the deterministic rules give an object, from its own fields
RuleLabel(i) ==
    LET o == Converted(i)
    IN IF ChecksOf(o).pattern.is_fp
       THEN Decided(o, "pattern_matching", ChecksOf(o).pattern.reason, 90)
       ELSE Decided(o, "context_analysis", ChecksOf(o).context.reason, 80)

\* C27: the findings of a batch are classified independently: the label of
\* an analysed finding is a function of its own fields, of whether its
\* fingerprint is in the verified set, and of the AI answer for it; the
\* position in the batch and the other findings play no part, so findings
\* with the same fields get the same label from the rules.
C27_LabelDependsOnOwnFields ==
    /\ \A i \in DOMAIN analyzed_findings :
         LET o == analyzed_findings[i]
         IN IF LabelledByAI(o)
            THEN /\ ChecksMiss(o)
                 /\ o = AIStep(Converted(i), o.ai_analysis.v)
            ELSE \/ /\ _generate_finding_hash(o) \in verified_fps
                    /\ o = Decided(Converted(i), "pattern_matching",
                                    "Previously verified false positive", 90)
                 \/ /\ RulesMatch(o)
                    /\ o = RuleLabel(i)
    /\ \A i, j \in DOMAIN analyzed_findings :
         (/\ ContentKey(analyzed_findings[i]) = ContentKey(analyzed_findings[j])
          /\ _generate_finding_hash(analyzed_findings[i]) \notin verified_fps)
           => /\ LabelledByAI(analyzed_findings[i]) <=> LabelledByAI(analyzed_findings[j])
              /\ ~LabelledByAI(analyzed_findings[i]) =>
                    /\ analyzed_findings[i].is_false_positive
                          = analyzed_findings[j].is_false_positive
                    /\ analyzed_findings[i].confidence = analyzed_findings[j].confidence
                    /\ analyzed_findings[i].ai_analysis = analyzed_findings[j].ai_analysis

\* a batch returned whose second finding, after a finding that a provider
\* resolved as a false positive, was decided by the rules
C27_Witness ==
    /\ pc = "done"
    /\ Len(analyzed_findings) = 2
    /\ findings[1] # findings[2]
    /\ TerminalStates(analyzed_findings[1]) = {"AIResolved"}
    /\ analyzed_findings[1].is_false_positive = JBool(TRUE)
    /\ analyzed_findings[2] = RuleLabel(2)
    /\ _generate_finding_hash(analyzed_findings[2]) \notin verified_fps

\* C28: the string hashed for the fingerprint is injective on the quadruple
\* (type, url, title, evidence): findings that differ in one of the four
\* never have the same string, so after one finding was confirmed only
\* findings with its quadruple are reported as "Previously verified false
\* positive".
C28_HashContentInjective ==
    /\ \A i, j \in DOMAIN vuln_findings :
         Quadruple(vuln_findings[i]) # Quadruple(vuln_findings[j])
           => HashContent(vuln_findings[i]) # HashContent(vuln_findings[j])
    /\ \A i \in DOMAIN analyzed_findings :
         LabelledBy(analyzed_findings[i], "pattern_matching",
                    "Previously verified false positive", 90)
           => \E f \in ConfirmInputs \cup {FindingColonInTitle} :
                 Quadruple(analyzed_findings[i]) = Quadruple(VulnerabilityFindings(0, f))

\* the fields of a finding that classification does not write
InputFields ==
    {"id", "type", "severity", "url", "title", "description", "evidence", "source_tool"}

\* the analysed findings that are not false positives
Kept == {i \in DOMAIN analyzed_findings : ~Truthy(analyzed_findings[i].is_false_positive)}

\* C29: the list filter_findings_batch returns is exactly the findings
\* classified as not false positive, in input order, each with the input's
\* id (or index), type, severity, url, title, description, evidence and
\* source_tool unchanged (a missing one with its default) and with the
\* confidence and ai_analysis of the classification; classification writes
\* only confidence, is_false_positive and ai_analysis; the findings are
\* analysed in input order, with requests posted for one finding at a time.
C29_ReturnedListInInputOrder ==
    /\ \A i \in DOMAIN vuln_findings : \A k \in InputFields :
         /\ vuln_findings[i][k] = Converted(i)[k]
         /\ k \in DOMAIN findings[i] => vuln_findings[i][k] = findings[i][k]
    /\ Len(analyzed_findings) <= Len(vuln_findings)
    /\ \A i \in DOMAIN analyzed_findings : analyzed_findings[i] = vuln_findings[i]
    /\ \A i \in DOMAIN ai_requests :
         i > Len(analyzed_findings) + (IF pc \in {"ollama", "huggingface"} THEN 1 ELSE 0)
           => ai_requests[i] = NoRequests
    /\ pc = "done" =>
         /\ Len(analyzed_findings) = Len(findings)
         /\ Len(filtered_findings) = Cardinality(Kept)
         /\ \A n \in DOMAIN filtered_findings :
              LET i == Kth(Kept, n)
              IN /\ DOMAIN filtered_findings[n] = InputFields \cup {"confidence", "ai_analysis"}
                 /\ \A k \in InputFields : filtered_findings[n][k] = Converted(i)[k]
                 /\ filtered_findings[n].confidence = analyzed_findings[i].confidence
                 /\ filtered_findings[n].ai_analysis = analyzed_findings[i].ai_analysis

\* a batch of two different findings returned the second one only, the
\* first being a false positive
C29_Witness ==
    /\ pc = "done"
    /\ Len(findings) = 2
    /\ Kept = {2}
    /\ Len(filtered_findings) = 1
    /\ filtered_findings[1].url = findings[2].url
    /\ findings[1].url # findings[2].url
    /\ TerminalStates(analyzed_findings[2]) = {"AIResolved"}

====
